---------------------------- MODULE Spec2Model ----------------------------
(***************************************************************************)
(* Resilience triad of supabase-edge-toolkit: the circuit breaker state    *)
(* machine (packages/resilience/circuit_breaker.ts), retry with backoff    *)
(* (retry.ts) and their composition in resilientFetch (mod.ts).            *)
(*                                                                         *)
(* Execution model: JavaScript single-threaded cooperative tasks.  Every   *)
(* action below is one synchronous run-to-completion segment of the code   *)
(* (from one await to the next); Date.now() is the variable now.           *)
(***************************************************************************)
EXTENDS Integers, Sequences, FiniteSets, TLC

(***************************************************************************)
(* Bounds of the model                                                     *)
(***************************************************************************)
MaxTime == 3
MaxThreshold == 2
MaxAttempts == 3

(***************************************************************************)
(* JavaScript values: an optional value is <<>> (undefined) or <<v>>.      *)
(***************************************************************************)
Undef == <<>>
Some(v) == <<v>>
IsDef(o) == o # <<>>
Val(o) == o[1]

Min(a, b) == IF a <= b THEN a ELSE b
Max(a, b) == IF a >= b THEN a ELSE b

(***************************************************************************)
(* Strings are sequences of one-character strings, so that substring,      *)
(* toLowerCase, includes and parseInt are computed and not assumed.        *)
(***************************************************************************)
DigitChars == <<"0", "1", "2", "3", "4", "5", "6", "7", "8", "9">>

IsDigit(c) == \E i \in 1..10 : DigitChars[i] = c

DigitVal(c) == (CHOOSE i \in 1..10 : DigitChars[i] = c) - 1

RECURSIVE NumToStr(_)
NumToStr(n) ==
    IF n < 10 THEN <<DigitChars[n + 1]>>
    ELSE NumToStr(n \div 10) \o <<DigitChars[(n % 10) + 1]>>

\* String.prototype.substring(0, k)
Substring0(s, k) == SubSeq(s, 1, Min(Len(s), k))

UpperChars == <<"A", "B", "C", "D", "E", "F", "G", "H", "I", "J", "K", "L", "M",
                "N", "O", "P", "Q", "R", "S", "T", "U", "V", "W", "X", "Y", "Z">>
LowerChars == <<"a", "b", "c", "d", "e", "f", "g", "h", "i", "j", "k", "l", "m",
                "n", "o", "p", "q", "r", "s", "t", "u", "v", "w", "x", "y", "z">>

LowerChar(c) ==
    IF \E i \in 1..26 : UpperChars[i] = c
    THEN LowerChars[CHOOSE i \in 1..26 : UpperChars[i] = c]
    ELSE c

\* String.prototype.toLowerCase()
ToLowerCase(s) == [i \in 1..Len(s) |-> LowerChar(s[i])]

\* String.prototype.includes(p)
Includes(s, p) ==
    \E i \in 0..(Len(s) - Len(p)) : SubSeq(s, i + 1, i + Len(p)) = p

\* The value of the longest prefix of decimal digits of s, read left to right.
RECURSIVE DigitsValue(_, _)
DigitsValue(s, acc) ==
    IF s = <<>> \/ ~IsDigit(Head(s)) THEN acc
    ELSE DigitsValue(Tail(s), acc * 10 + DigitVal(Head(s)))

\* parseInt(s, 10): leading blanks skipped, optional sign, then the digit
\* prefix; undefined stands for NaN.
RECURSIVE ParseInt(_)
ParseInt(s) ==
    IF s = <<>> THEN Undef
    ELSE IF Head(s) = " " THEN ParseInt(Tail(s))
    ELSE IF Head(s) = "-" \/ Head(s) = "+"
         THEN IF Len(s) >= 2 /\ IsDigit(s[2])
              THEN Some((IF Head(s) = "-" THEN -1 ELSE 1) * DigitsValue(Tail(s), 0))
              ELSE Undef
    ELSE IF IsDigit(Head(s)) THEN Some(DigitsValue(s, 0))
    ELSE Undef


(***************************************************************************)
(* Errors.  An error value is a record of the fields the code inspects by  *)
(* duck typing; isError is "instanceof Error", isObject is                 *)
(* "typeof error === 'object'".  extra holds the fields of the subclass.   *)
(***************************************************************************)
NoExtra == [kind |-> "none"]

MkError(nm, msg, sc, st, cd, ir, ex) ==
    [isError |-> TRUE, isObject |-> TRUE, name |-> nm, message |-> msg,
     statusCode |-> sc, status |-> st, code |-> cd, isRetryable |-> ir,
     extra |-> ex]

StrFail == <<"f", "a", "i", "l">>
StrBoom == <<"C", "o", "n", "n", "e", "c", "t", "i", "o", "n", " ",
             "R", "E", "F", "U", "S", "E", "D">>
StrHttp == <<"H", "T", "T", "P", " ">>
StrNotFound == <<"n", "o", "t", " ", "f", "o", "u", "n", "d">>
StrCircuitOpen == <<"C", "I", "R", "C", "U", "I", "T", "_", "O", "P", "E", "N">>
StrTimeoutCode == <<"T", "I", "M", "E", "O", "U", "T">>
StrFetch == <<"f", "e", "t", "c", "h">>
StrSvc == <<"s", "v", "c">>
StrUnknownError == <<"U", "n", "k", "n", "o", "w", "n", " ", "e", "r", "r", "o", "r">>

\* Math.ceil(n / 1000) for n >= 0
CeilDiv1000(n) == (n + 999) \div 1000

\* `Circuit breaker '${serviceName}' is OPEN, retry after ${ceil(ms / 1000)}s`
CircuitOpenMessage(serviceName, remaining) ==
    <<"C", "i", "r", "c", "u", "i", "t", " ", "b", "r", "e", "a", "k", "e", "r", " ", "'">>
    \o serviceName
    \o <<"'", " ", "i", "s", " ", "O", "P", "E", "N", ",", " ",
         "r", "e", "t", "r", "y", " ", "a", "f", "t", "e", "r", " ">>
    \o NumToStr(CeilDiv1000(remaining)) \o <<"s">>

\* `Operation '${operation}' timed out after ${timeoutMs}ms`
TimeoutMessage(operation, timeoutMs) ==
    <<"O", "p", "e", "r", "a", "t", "i", "o", "n", " ", "'">> \o operation
    \o <<"'", " ", "t", "i", "m", "e", "d", " ", "o", "u", "t", " ",
         "a", "f", "t", "e", "r", " ">>
    \o NumToStr(timeoutMs) \o <<"m", "s">>

\* `Operation failed after ${maxAttempts} attempts: ${lastError?.message}`
RetryMessage(maxAttempts, msg) ==
    <<"O", "p", "e", "r", "a", "t", "i", "o", "n", " ", "f", "a", "i", "l", "e", "d", " ",
      "a", "f", "t", "e", "r", " ">>
    \o NumToStr(maxAttempts)
    \o <<" ", "a", "t", "t", "e", "m", "p", "t", "s", ":", " ">> \o msg

\* new Error("fail")
PlainError == MkError("Error", StrFail, Undef, Undef, Undef, Undef, NoExtra)

\* new TypeError("Connection REFUSED"): a transport failure
NetError == MkError("TypeError", StrBoom, Undef, Undef, Undef, Undef, NoExtra)

\* The tests' TestError(message, statusCode): statusCode and status both set.
TestError(msg, sc) == MkError("TestError", msg, Some(sc), Some(sc), Undef, Undef, NoExtra)

\* An Error whose only status is the string code, e.g. code = "404"
CodeError(msg, n) == MkError("Error", msg, Undef, Undef, Some(NumToStr(n)), Undef, NoExtra)

\* A thrown value that is no Error: the string "fail"
ThrownString ==
    [isError |-> FALSE, isObject |-> FALSE, name |-> "", message |-> StrFail,
     statusCode |-> Undef, status |-> Undef, code |-> Undef, isRetryable |-> Undef,
     extra |-> NoExtra]

\* class CircuitBreakerOpenError: code "CIRCUIT_OPEN", isRetryable false
CircuitBreakerOpenError(serviceName, remaining) ==
    MkError("CircuitBreakerOpenError", CircuitOpenMessage(serviceName, remaining), Undef, Undef, Some(StrCircuitOpen),
            Some(FALSE),
            [kind |-> "circuitOpen", serviceName |-> serviceName,
             remainingTimeoutMs |-> remaining])

\* class TimeoutError: code "TIMEOUT", isRetryable true
TimeoutError(operation, timeoutMs) ==
    MkError("TimeoutError", TimeoutMessage(operation, timeoutMs), Undef, Undef, Some(StrTimeoutCode),
            Some(TRUE),
            [kind |-> "timeout", operation |-> operation, timeoutMs |-> timeoutMs])

(***************************************************************************)
(* Circuit breaker: the record of a name, the registry, a handle.          *)
(***************************************************************************)
Names == {StrSvc}

FreshRecord ==
    [state |-> "closed", failureCount |-> 0, successCount |-> 0,
     lastFailureTime |-> Undef, openedAt |-> Undef, lastError |-> Undef]

\* circuitRegistry.get(name) || { closed, 0, 0 }
GetState(reg, name) == IF IsDef(reg[name]) THEN Val(reg[name]) ELSE FreshRecord

\* circuitRegistry.set(name, { ...current, ...update })
SetState(reg, name, update) ==
    LET current == GetState(reg, name)
    IN  [reg EXCEPT ![name] =
            Some([f \in DOMAIN current |->
                     IF f \in DOMAIN update THEN update[f] ELSE current[f]])]

\* a JavaScript number used as a condition: undefined and 0 are falsy
Truthy(o) == IsDef(o) /\ Val(o) # 0

\* mutant: closing keeps the open timestamp
TransitionTo_KeepsOpenedAt(reg, name, newState, t) ==
    CASE newState = "open" ->
            SetState(reg, name,
                     [state |-> "open", openedAt |-> Some(t), successCount |-> 0])
      [] newState = "half-open" ->
            SetState(reg, name, [state |-> "half-open", successCount |-> 0])
      [] newState = "closed" ->
            SetState(reg, name,
                     [state |-> "closed", failureCount |-> 0, successCount |-> 0,
                      lastError |-> Undef])

TransitionTo(reg, name, newState, t) ==
    CASE newState = "open" ->
            SetState(reg, name,
                     [state |-> "open", openedAt |-> Some(t), successCount |-> 0])
      [] newState = "half-open" ->
            SetState(reg, name, [state |-> "half-open", successCount |-> 0])
      [] newState = "closed" ->
            SetState(reg, name,
                     [state |-> "closed", failureCount |-> 0, successCount |-> 0,
                      openedAt |-> Undef, lastError |-> Undef])

\* mutant: the cooldown must be exceeded, not reached
CheckStateTransition_Strict(reg, h, t) ==
    LET cur == GetState(reg, h.name)
    IN  IF cur.state = "open" /\ Truthy(cur.openedAt)
           /\ t - Val(cur.openedAt) > h.config.resetTimeoutMs
        THEN TransitionTo(reg, h.name, "half-open", t)
        ELSE reg

CheckStateTransition(reg, h, t) ==
    LET cur == GetState(reg, h.name)
    IN  IF cur.state = "open" /\ Truthy(cur.openedAt)
           /\ t - Val(cur.openedAt) >= h.config.resetTimeoutMs
        THEN TransitionTo(reg, h.name, "half-open", t)
        ELSE reg

\* mutant: the elapsed time is not subtracted
RemainingTimeoutMs_NoElapsed(reg, h, t) ==
    LET cur == GetState(reg, h.name)
    IN  IF cur.state # "open" \/ ~Truthy(cur.openedAt) THEN 0
        ELSE h.config.resetTimeoutMs

RemainingTimeoutMs(reg, h, t) ==
    LET cur == GetState(reg, h.name)
    IN  IF cur.state # "open" \/ ~Truthy(cur.openedAt) THEN 0
        ELSE LET remaining == h.config.resetTimeoutMs - (t - Val(cur.openedAt))
             IN  IF remaining > 0 THEN remaining ELSE 0

\* mutant: a success while closed leaves failureCount as it is
OnSuccess_NoReset(reg, h, t) ==
    LET cur == GetState(reg, h.name)
    IN  IF cur.state = "half-open"
        THEN IF cur.successCount + 1 >= h.config.successThreshold
             THEN TransitionTo(reg, h.name, "closed", t)
             ELSE SetState(reg, h.name, [successCount |-> cur.successCount + 1])
        ELSE reg

\* mutant: a probe success is not accounted, the record stays half-open
OnSuccess_IgnoresProbes(reg, h, t) ==
    LET cur == GetState(reg, h.name)
    IN  IF cur.state = "half-open"
        THEN reg
        ELSE IF cur.state = "closed"
        THEN SetState(reg, h.name, [failureCount |-> 0])
        ELSE reg

OnSuccess(reg, h, t) ==
    LET cur == GetState(reg, h.name)
    IN  IF cur.state = "half-open"
        THEN IF cur.successCount + 1 >= h.config.successThreshold
             THEN TransitionTo(reg, h.name, "closed", t)
             ELSE SetState(reg, h.name, [successCount |-> cur.successCount + 1])
        ELSE IF cur.state = "closed"
        THEN SetState(reg, h.name, [failureCount |-> 0])
        ELSE reg

IgnoredCodes(config) ==
    IF IsDef(config.ignoredStatusCodes) THEN Val(config.ignoredStatusCodes) ELSE {}

\* mutant: the string code is not looked at
ShouldIgnoreError_NoCode(h, e) ==
    /\ e.isObject
    /\ \/ IsDef(e.statusCode) /\ Val(e.statusCode) \in IgnoredCodes(h.config)
       \/ IsDef(e.status) /\ Val(e.status) \in IgnoredCodes(h.config)

ShouldIgnoreError(h, e) ==
    /\ e.isObject
    /\ \/ IsDef(e.statusCode) /\ Val(e.statusCode) \in IgnoredCodes(h.config)
       \/ IsDef(e.status) /\ Val(e.status) \in IgnoredCodes(h.config)
       \/ /\ IsDef(e.code)
          /\ IsDef(ParseInt(Val(e.code)))
          /\ Val(ParseInt(Val(e.code))) \in IgnoredCodes(h.config)

MaxErrorLen == 200

\* mutant: a failure while half-open is counted like one while closed
OnFailure_CountsInHalfOpen(reg, h, e, t) ==
    IF ShouldIgnoreError(h, e) THEN reg
    ELSE LET cur == GetState(reg, h.name)
             reg1 == SetState(reg, h.name,
                              [lastFailureTime |-> Some(t),
                               lastError |-> Some(Substring0(e.message, MaxErrorLen))])
         IN  IF cur.state \in {"half-open", "closed"}
             THEN IF cur.failureCount + 1 >= h.config.failureThreshold
                  THEN TransitionTo(reg1, h.name, "open", t)
                  ELSE SetState(reg1, h.name, [failureCount |-> cur.failureCount + 1])
             ELSE reg1

\* mutant: the count written is one above the count of a fresh record, not
\* one above the count the record holds
OnFailure_StaleCount(reg, h, e, t) ==
    IF ShouldIgnoreError(h, e) THEN reg
    ELSE LET cur == GetState(reg, h.name)
             reg1 == SetState(reg, h.name,
                              [lastFailureTime |-> Some(t),
                               lastError |-> Some(Substring0(e.message, MaxErrorLen))])
         IN  IF cur.state = "half-open"
             THEN TransitionTo(reg1, h.name, "open", t)
             ELSE IF cur.state = "closed"
             THEN IF FreshRecord.failureCount + 1 >= h.config.failureThreshold
                  THEN TransitionTo(reg1, h.name, "open", t)
                  ELSE SetState(reg1, h.name,
                                [failureCount |-> FreshRecord.failureCount + 1])
             ELSE reg1

\* mutant: a failure on an open record opens it again
OnFailure_Reopens(reg, h, e, t) ==
    IF ShouldIgnoreError(h, e) THEN reg
    ELSE LET cur == GetState(reg, h.name)
             reg1 == SetState(reg, h.name,
                              [lastFailureTime |-> Some(t),
                               lastError |-> Some(Substring0(e.message, MaxErrorLen))])
         IN  IF cur.state \in {"half-open", "open"}
             THEN TransitionTo(reg1, h.name, "open", t)
             ELSE IF cur.failureCount + 1 >= h.config.failureThreshold
                  THEN TransitionTo(reg1, h.name, "open", t)
                  ELSE SetState(reg1, h.name, [failureCount |-> cur.failureCount + 1])

OnFailure(reg, h, e, t) ==
    IF ShouldIgnoreError(h, e) THEN reg
    ELSE LET cur == GetState(reg, h.name)
             reg1 == SetState(reg, h.name,
                              [lastFailureTime |-> Some(t),
                               lastError |-> Some(Substring0(e.message, MaxErrorLen))])
         IN  IF cur.state = "half-open"
             THEN TransitionTo(reg1, h.name, "open", t)
             ELSE IF cur.state = "closed"
             THEN IF cur.failureCount + 1 >= h.config.failureThreshold
                  THEN TransitionTo(reg1, h.name, "open", t)
                  ELSE SetState(reg1, h.name, [failureCount |-> cur.failureCount + 1])
             ELSE reg1


(***************************************************************************)
(* Retry: configuration, delay, classification.                            *)
(***************************************************************************)
RECURSIVE Pow(_, _)
Pow(b, n) == IF n <= 0 THEN 1 ELSE b * Pow(b, n - 1)

DefaultBackoffMultiplier == 2

\* Math.round(delay * (0.5 + Math.random())) with Math.random() in [0, 1):
\* every integer k with delay/2 <= k + 1/2 and k - 1/2 < 3*delay/2
JitterSet(delay) == ((delay + 1) \div 2)..((3 * delay) \div 2)

\* mutant: the exponent is the attempt number, not attempt - 1
CalculateRetryDelay_FromAttempt(attempt, config) ==
    LET multiplier == IF IsDef(config.backoffMultiplier)
                      THEN Val(config.backoffMultiplier)
                      ELSE DefaultBackoffMultiplier
        capped == Min(config.baseDelayMs * Pow(multiplier, attempt),
                      config.maxDelayMs)
    IN  IF IsDef(config.jitter) /\ Val(config.jitter)
        THEN JitterSet(capped)
        ELSE {capped}

\* calculateRetryDelay: the set of delays it can return
CalculateRetryDelay(attempt, config) ==
    LET multiplier == IF IsDef(config.backoffMultiplier)
                      THEN Val(config.backoffMultiplier)
                      ELSE DefaultBackoffMultiplier
        capped == Min(config.baseDelayMs * Pow(multiplier, attempt - 1),
                      config.maxDelayMs)
    IN  IF IsDef(config.jitter) /\ Val(config.jitter)
        THEN JitterSet(capped)
        ELSE {capped}

DefaultRetryableCodes == {429, 500, 502, 503, 504}

RetryableNames == {"TimeoutError", "AbortError", "NetworkError"}

RetryablePatterns ==
    { <<"t", "i", "m", "e", "o", "u", "t">>,
      <<"t", "i", "m", "e", "d", " ", "o", "u", "t">>,
      <<"r", "a", "t", "e", " ", "l", "i", "m", "i", "t">>,
      <<"t", "o", "o", " ", "m", "a", "n", "y", " ",
        "r", "e", "q", "u", "e", "s", "t", "s">>,
      <<"s", "e", "r", "v", "i", "c", "e", " ",
        "u", "n", "a", "v", "a", "i", "l", "a", "b", "l", "e">>,
      <<"b", "a", "d", " ", "g", "a", "t", "e", "w", "a", "y">>,
      <<"g", "a", "t", "e", "w", "a", "y", " ", "t", "i", "m", "e", "o", "u", "t">>,
      <<"n", "e", "t", "w", "o", "r", "k", " ", "e", "r", "r", "o", "r">>,
      <<"c", "o", "n", "n", "e", "c", "t", "i", "o", "n", " ",
        "r", "e", "f", "u", "s", "e", "d">>,
      <<"e", "c", "o", "n", "n", "r", "e", "s", "e", "t">> }

IsRetryableError(e, config) ==
    LET retryableCodes == IF IsDef(config.retryableStatusCodes)
                          THEN Val(config.retryableStatusCodes)
                          ELSE DefaultRetryableCodes
        retryableErrorCodes == IF IsDef(config.retryableErrorCodes)
                               THEN Val(config.retryableErrorCodes)
                               ELSE {}
    IN  IF ~e.isError THEN FALSE
        ELSE IF IsDef(e.statusCode) /\ Val(e.statusCode) \in retryableCodes THEN TRUE
        ELSE IF IsDef(e.status) /\ Val(e.status) \in retryableCodes THEN TRUE
        ELSE IF /\ IsDef(e.code)
                /\ \/ /\ IsDef(ParseInt(Val(e.code)))
                      /\ Val(ParseInt(Val(e.code))) \in retryableCodes
                   \/ Val(e.code) \in retryableErrorCodes
             THEN TRUE
        ELSE IF IsDef(e.isRetryable) THEN Val(e.isRetryable)
        ELSE IF e.name \in RetryableNames THEN TRUE
        ELSE \E p \in RetryablePatterns : Includes(ToLowerCase(e.message), p)

\* class RetryError: code "RETRY_EXHAUSTED", isRetryable false
StrRetryExhausted == <<"R", "E", "T", "R", "Y", "_",
                       "E", "X", "H", "A", "U", "S", "T", "E", "D">>

RetryError(msg, attempts, lastError) ==
    MkError("RetryError", msg, Undef, Undef, Some(StrRetryExhausted), Some(FALSE),
            [kind |-> "retry", attempts |-> attempts, lastError |-> lastError])

\* error instanceof Error ? error : new Error(String(error))
AsError(e) ==
    IF e.isError THEN e
    ELSE MkError("Error", e.message, Undef, Undef, Undef, Undef, NoExtra)


(***************************************************************************)
(* The state.                                                              *)
(*   now        Date.now()                                                 *)
(*   registry   circuitRegistry: name -> undefined or the record           *)
(*   handles    the CircuitBreaker objects constructed so far              *)
(*   pool       the breaker policies callers pass (fixed by Init)          *)
(*   tasks      the asynchronous calls in progress, one record each; resp  *)
(*              is the status of the transport's response (resilientFetch),*)
(*              out                                                        *)
(*              is the outcome of the operation of the latest attempt,     *)
(*              obs (history) the state and successCount the breaker read  *)
(*              when it accounted that outcome, adm (history) the state    *)
(*              in which the breaker let the operation in flight through,  *)
(*              timer the state of the timer withTimeout created (none,    *)
(*              armed, cleared, fired), label its operation argument,      *)
(*              result the outcome the caller receives                     *)
(*   consecFail history: per name, the non-ignored failures observed since *)
(*              the last observed success, creation, reset or close        *)
(***************************************************************************)
VARIABLES now, registry, handles, pool, tasks, consecFail

vars == <<now, registry, handles, pool, tasks, consecFail>>

Tasks == {1, 2}

ResetTimeoutMs == 2

Policies ==
    [failureThreshold : 1..MaxThreshold,
     resetTimeoutMs : {ResetTimeoutMs},
     successThreshold : 1..MaxThreshold,
     ignoredStatusCodes : {Undef, Some({404})}]

NoConfig ==
    [failureThreshold |-> 0, resetTimeoutMs |-> 0, successThreshold |-> 0,
     ignoredStatusCodes |-> Undef]

NoRetryConfig ==
    [maxAttempts |-> 0, baseDelayMs |-> 0, maxDelayMs |-> 0,
     backoffMultiplier |-> Undef, jitter |-> Undef,
     retryableStatusCodes |-> Undef, retryableErrorCodes |-> Undef]

Handle(name, config) == [name |-> name, config |-> config]

IdleTask ==
    [pc |-> "idle", mode |-> "none", h |-> Handle(<<>>, NoConfig),
     useCB |-> FALSE, useRetry |-> FALSE, rcfg |-> NoRetryConfig, timeoutMs |-> 0,
     attempt |-> 0, invoked |-> 0, startedAt |-> 0, wakeAt |-> 0, sleeps |-> 0,
     retryCtx |-> Undef, resp |-> Undef, out |-> Undef, obs |-> Undef,
     adm |-> Undef, timer |-> "none", label |-> Undef, result |-> Undef]

Ok(v) == [ok |-> TRUE, value |-> v]
Fail(e) == [ok |-> FALSE, error |-> e]


(***************************************************************************)
(* One call through the layers.  Each operator returns the set of possible *)
(* continuations (Math.random makes the retry delay a choice).             *)
(***************************************************************************)
\* the promise of the whole call settles
Done(tk, o) == [tk EXCEPT !.pc = "done", !.result = Some(o)]

\* the catch block with one of its two break conditions changed
RetryCatchWith(tk, e, t, exhausted, terminal) ==
    IF exhausted \/ terminal
    THEN {Done(tk, Fail(RetryError(RetryMessage(tk.rcfg.maxAttempts, AsError(e).message),
                                   tk.rcfg.maxAttempts, AsError(e))))}
    ELSE {[tk EXCEPT !.pc = "sleeping", !.wakeAt = t + d, !.sleeps = @ + 1,
                     !.retryCtx = Some([attempt |-> tk.attempt,
                                        maxAttempts |-> tk.rcfg.maxAttempts,
                                        lastError |-> AsError(e),
                                        delayMs |-> d])] :
             d \in CalculateRetryDelay(tk.attempt, tk.rcfg)}

\* mutant: the error is not classified, every failure is retried
RetryCatch_NoClassify(tk, e, t) ==
    RetryCatchWith(tk, e, t, tk.attempt >= tk.rcfg.maxAttempts, FALSE)

\* mutant: gives up one attempt early
RetryCatch_OneShort(tk, e, t) ==
    RetryCatchWith(tk, e, t, tk.attempt + 1 >= tk.rcfg.maxAttempts,
                   ~IsRetryableError(e, tk.rcfg))

\* mutant: allows one attempt too many
RetryCatch_OneMore(tk, e, t) ==
    RetryCatchWith(tk, e, t, tk.attempt > tk.rcfg.maxAttempts,
                   ~IsRetryableError(e, tk.rcfg))

\* withRetry, catch block: break (exhausted or not retryable) or sleep
RetryCatch(tk, e, t) ==
    IF tk.attempt >= tk.rcfg.maxAttempts \/ ~IsRetryableError(e, tk.rcfg)
    THEN {Done(tk, Fail(RetryError(RetryMessage(tk.rcfg.maxAttempts, AsError(e).message),
                                   tk.rcfg.maxAttempts, AsError(e))))}
    ELSE {[tk EXCEPT !.pc = "sleeping", !.wakeAt = t + d, !.sleeps = @ + 1,
                     !.retryCtx = Some([attempt |-> tk.attempt,
                                        maxAttempts |-> tk.rcfg.maxAttempts,
                                        lastError |-> AsError(e),
                                        delayMs |-> d])] :
             d \in CalculateRetryDelay(tk.attempt, tk.rcfg)}

\* mutant: the outcome goes through the retry layer also with retry: false
Settle_AlwaysRetry(tk, o, t) ==
    IF ~o.ok THEN RetryCatch(tk, o.error, t) ELSE {Done(tk, o)}

\* the outcome o of one attempt reaches the retry layer, or the caller
Settle(tk, o, t) ==
    IF tk.useRetry /\ ~o.ok THEN RetryCatch(tk, o.error, t) ELSE {Done(tk, o)}

\* the wrapped operation is invoked
\* (fetchWithTimeout arms its timer then: startedAt)
Invoke(tk, t) ==
    [tk EXCEPT !.pc = "inflight", !.invoked = @ + 1,
               !.startedAt = IF tk.mode = "fetch" THEN t ELSE @]

\* mutant: the breaker is asked before the first attempt only (the breaker
\* wrapped around the retry loop instead of inside it)
Attempt_FirstOnly(tk, reg, t) ==
    IF tk.useCB /\ tk.attempt = 1
    THEN LET reg1 == CheckStateTransition(reg, tk.h, t)
         IN  IF GetState(reg1, tk.h.name).state = "open"
             THEN {[tk |-> x, reg |-> reg1] :
                     x \in Settle(tk,
                                  Fail(CircuitBreakerOpenError(
                                         tk.h.name, RemainingTimeoutMs(reg1, tk.h, t))),
                                  t)}
             ELSE {[tk |-> [Invoke(tk, t) EXCEPT
                              !.adm = Some(GetState(reg1, tk.h.name).state)],
                    reg |-> reg1]}
    ELSE {[tk |-> Invoke(tk, t), reg |-> reg]}

\* CircuitBreaker.call up to "await operation()", or the bare operation
Attempt(tk, reg, t) ==
    IF tk.useCB
    THEN LET reg1 == CheckStateTransition(reg, tk.h, t)
         IN  IF GetState(reg1, tk.h.name).state = "open"
             THEN {[tk |-> x, reg |-> reg1] :
                     x \in Settle(tk,
                                  Fail(CircuitBreakerOpenError(
                                         tk.h.name, RemainingTimeoutMs(reg1, tk.h, t))),
                                  t)}
             ELSE {[tk |-> [Invoke(tk, t) EXCEPT
                              !.adm = Some(GetState(reg1, tk.h.name).state)],
                    reg |-> reg1]}
    ELSE {[tk |-> Invoke(tk, t), reg |-> reg]}

\* CircuitBreaker.call after "await operation()": onSuccess or onFailure,
\* then the outcome is handed on unchanged
\* mutant: an outcome is accounted only if the record is still in the state
\* in which the operation was admitted
Account_ByAdmission(tk, reg, o, t) ==
    IF ~tk.useCB THEN reg
    ELSE IF tk.adm # Some(GetState(reg, tk.h.name).state) THEN reg
    ELSE IF o.ok THEN OnSuccess(reg, tk.h, t)
    ELSE OnFailure(reg, tk.h, o.error, t)

Account(tk, reg, o, t) ==
    IF ~tk.useCB THEN reg
    ELSE IF o.ok THEN OnSuccess(reg, tk.h, t)
    ELSE OnFailure(reg, tk.h, o.error, t)

Finish(tk, reg, o, t) ==
    {[tk |-> x, reg |-> Account(tk, reg, o, t)] :
        x \in Settle([tk EXCEPT !.adm = Undef], o, t)}

\* history: what onSuccess / onFailure reads of the record
Observed(tk, reg) ==
    IF tk.useCB
    THEN Some([state |-> GetState(reg, tk.h.name).state,
               successCount |-> GetState(reg, tk.h.name).successCount])
    ELSE Undef

\* history: the failures counted for a name after outcome o through handle h
Counted(cf, tk, o) ==
    IF ~tk.useCB THEN cf
    ELSE IF o.ok THEN [cf EXCEPT ![tk.h.name] = 0]
    ELSE IF ShouldIgnoreError(tk.h, o.error) THEN cf
    ELSE [cf EXCEPT ![tk.h.name] = @ + 1]

(***************************************************************************)
(* Operations of the breaker                                               *)
(***************************************************************************)
\* what a caller's operation may throw; its k-th invocation returns k
RawErrors(mode) ==
    IF mode = "call"
    THEN {PlainError, TestError(StrNotFound, 404), CodeError(StrNotFound, 404),
          ThrownString}
    ELSE {PlainError, TestError(StrNotFound, 404), TestError(StrFail, 503),
          CodeError(StrFail, 503), NetError, ThrownString}

RawOutcomes(tk) == {Ok(tk.invoked)} \cup {Fail(e) : e \in RawErrors(tk.mode)}

\* mutant: getOrCreate stores a fresh record whether or not the name exists
GetOrCreate_Fresh(name, config) ==
    /\ registry' = [registry EXCEPT ![name] = Some(FreshRecord)]
    /\ handles' = handles \cup {Handle(name, config)}
    /\ consecFail' = [consecFail EXCEPT ![name] = 0]
    /\ UNCHANGED <<now, pool, tasks>>

\* CircuitBreaker.getOrCreate(name, config)
GetOrCreate(name, config) ==
    /\ registry' = IF IsDef(registry[name]) THEN registry
                   ELSE [registry EXCEPT ![name] = Some(FreshRecord)]
    /\ handles' = handles \cup {Handle(name, config)}
    /\ consecFail' = IF IsDef(registry[name]) THEN consecFail
                     ELSE [consecFail EXCEPT ![name] = 0]
    /\ UNCHANGED <<now, pool, tasks>>

\* breaker.call(operation) on an existing handle
Call(t, h) ==
    /\ tasks[t].pc = "idle"
    /\ \E r \in Attempt([IdleTask EXCEPT !.mode = "call", !.h = h, !.useCB = TRUE,
                                         !.attempt = 1],
                        registry, now) :
          /\ tasks' = [tasks EXCEPT ![t] = r.tk]
          /\ registry' = r.reg
    /\ UNCHANGED <<now, handles, pool, consecFail>>

\* the operation of a call settles
Complete(t) ==
    /\ tasks[t].pc = "inflight"
    /\ tasks[t].mode # "fetch"
    /\ \E o \in RawOutcomes(tasks[t]) :
          /\ \E r \in Finish([tasks[t] EXCEPT !.out = Some(o),
                                               !.obs = Observed(tasks[t], registry)],
                              registry, o, now) :
                /\ tasks' = [tasks EXCEPT ![t] = r.tk]
                /\ registry' = r.reg
          /\ consecFail' = Counted(consecFail, tasks[t], o)
          /\ UNCHANGED <<now, handles, pool>>

\* the caller has taken the result
Return(t) ==
    /\ tasks[t].pc = "done"
    /\ tasks' = [tasks EXCEPT ![t] = IdleTask]
    /\ UNCHANGED <<now, registry, handles, pool, consecFail>>

Tick(limit) ==
    /\ now < limit
    /\ now' = now + 1
    /\ UNCHANGED <<registry, handles, pool, tasks, consecFail>>

ForceOpen(h) ==
    /\ registry' = TransitionTo(registry, h.name, "open", now)
    /\ UNCHANGED <<now, handles, pool, tasks, consecFail>>

ForceClose(h) ==
    /\ registry' = TransitionTo(registry, h.name, "closed", now)
    /\ consecFail' = [consecFail EXCEPT ![h.name] = 0]
    /\ UNCHANGED <<now, handles, pool, tasks>>

Reset(h) ==
    /\ registry' = [registry EXCEPT ![h.name] = Some(FreshRecord)]
    /\ consecFail' = [consecFail EXCEPT ![h.name] = 0]
    /\ UNCHANGED <<now, handles, pool, tasks>>

ResetAll ==
    /\ registry' = [n \in Names |-> IF IsDef(registry[n]) THEN Some(FreshRecord) ELSE Undef]
    /\ consecFail' = [n \in Names |-> 0]
    /\ UNCHANGED <<now, handles, pool, tasks>>

ClearAll ==
    /\ registry' = [n \in Names |-> Undef]
    /\ consecFail' = [n \in Names |-> 0]
    /\ UNCHANGED <<now, handles, pool, tasks>>

\* the getter isAllowingRequests: it runs checkStateTransition
IsAllowingRequests(h) ==
    /\ registry' = CheckStateTransition(registry, h, now)
    /\ UNCHANGED <<now, handles, pool, tasks, consecFail>>

Init ==
    /\ now = 1
    /\ registry = [n \in Names |-> Undef]
    /\ handles = {}
    /\ \E c \in Policies : pool = {c}
    /\ tasks = [t \in Tasks |-> IdleTask]
    /\ consecFail = [n \in Names |-> 0]

Next ==
    \/ \E n \in Names, c \in pool : GetOrCreate(n, c)
    \/ \E t \in Tasks, h \in handles : Call(t, h)
    \/ \E t \in Tasks : Complete(t)
    \/ \E t \in Tasks : Return(t)
    \/ Tick(MaxTime)
    \/ \E h \in handles : ForceOpen(h)
    \/ \E h \in handles : ForceClose(h)
    \/ \E h \in handles : Reset(h)
    \/ ResetAll
    \/ ClearAll
    \/ \E h \in handles : IsAllowingRequests(h)

Spec == Init /\ [][Next]_vars


(***************************************************************************)
(* withRetry(operation, config, onRetry) on its own                        *)
(***************************************************************************)
MaxRetryTime == 5

RetryConfigs ==
    [maxAttempts : 1..MaxAttempts,
     baseDelayMs : {1},
     maxDelayMs : {2},
     backoffMultiplier : {Undef, Some(2)},
     jitter : {Undef, Some(TRUE)},
     retryableStatusCodes : {Undef, Some({404})},
     retryableErrorCodes : {Undef}]

\* withRetry(operation, config): the first attempt starts at once
StartRetry(t, config) ==
    /\ tasks[t].pc = "idle"
    /\ \E r \in Attempt([IdleTask EXCEPT !.mode = "retry", !.useRetry = TRUE,
                                         !.rcfg = config, !.attempt = 1],
                        registry, now) :
          /\ tasks' = [tasks EXCEPT ![t] = r.tk]
          /\ registry' = r.reg
    /\ UNCHANGED <<now, handles, pool, consecFail>>

\* mutant: the next attempt does not wait for the sleep to be over
Wake_Early(t) ==
    /\ tasks[t].pc = "sleeping"
    /\ \E r \in Attempt([tasks[t] EXCEPT !.attempt = @ + 1], registry, now) :
          /\ tasks' = [tasks EXCEPT ![t] = r.tk]
          /\ registry' = r.reg
    /\ UNCHANGED <<now, handles, pool, consecFail>>

\* the sleep between two attempts is over: attempt++ and the next attempt
Wake(t) ==
    /\ tasks[t].pc = "sleeping"
    /\ now >= tasks[t].wakeAt
    /\ \E r \in Attempt([tasks[t] EXCEPT !.attempt = @ + 1], registry, now) :
          /\ tasks' = [tasks EXCEPT ![t] = r.tk]
          /\ registry' = r.reg
    /\ UNCHANGED <<now, handles, pool, consecFail>>

InitRetry ==
    /\ now = 1
    /\ registry = [n \in Names |-> Undef]
    /\ handles = {}
    /\ pool = {}
    /\ tasks = [t \in Tasks |-> IdleTask]
    /\ consecFail = [n \in Names |-> 0]

NextRetry ==
    \/ \E c \in RetryConfigs : StartRetry(1, c)
    \/ Complete(1)
    \/ Wake(1)
    \/ Return(1)
    \/ Tick(MaxRetryTime)

SpecRetry == InitRetry /\ [][NextRetry]_vars

(***************************************************************************)
(* resilientFetch(url, init, config)                                       *)
(***************************************************************************)
FetchTimeoutMs == 2

Statuses == {200, 404, 503}

FetchPolicies ==
    [failureThreshold : 1..MaxThreshold,
     resetTimeoutMs : {ResetTimeoutMs},
     successThreshold : {1},
     ignoredStatusCodes : {Some({404}), Some({404, 503})}]

FetchRetryConfigs ==
    [maxAttempts : 1..MaxAttempts,
     baseDelayMs : {1},
     maxDelayMs : {1},
     backoffMultiplier : {Undef},
     jitter : {Undef},
     retryableStatusCodes : {Undef},
     retryableErrorCodes : {Undef}]

\* new Error(`HTTP ${response.status}`) with statusCode = response.status
HttpError(status) ==
    MkError("Error", StrHttp \o NumToStr(status), Some(status), Undef, Undef, Undef,
            NoExtra)

\* mutant: the response is returned whatever its status
Promote_NoThrow(status) == Ok(status)

\* mutant: client errors are thrown as well
Promote_From400(status) ==
    IF status >= 400 THEN Fail(HttpError(status)) ELSE Ok(status)

\* mutant: a rate-limited response (429) is thrown like a server error
Promote_RateLimited(status) ==
    IF status >= 500 \/ status = 429 THEN Fail(HttpError(status)) ELSE Ok(status)

\* operation(): a response with status >= 500 is thrown
Promote(status) == IF status >= 500 THEN Fail(HttpError(status)) ELSE Ok(status)

\* mutant: getOrCreate runs for the service name also when the breaker is
\* disabled for the call
StartFetch_AlwaysRegisters(t, name, cb, rt) ==
    /\ tasks[t].pc = "idle"
    /\ LET reg0 == IF IsDef(registry[name]) THEN registry
                   ELSE [registry EXCEPT ![name] = Some(FreshRecord)]
           tk0 == [IdleTask EXCEPT
                     !.mode = "fetch",
                     !.h = Handle(name, IF IsDef(cb) THEN Val(cb) ELSE NoConfig),
                     !.useCB = IsDef(cb),
                     !.useRetry = IsDef(rt),
                     !.rcfg = IF IsDef(rt) THEN Val(rt) ELSE NoRetryConfig,
                     !.timeoutMs = FetchTimeoutMs,
                     !.attempt = 1]
       IN  /\ \E r \in Attempt(tk0, reg0, now) :
                 /\ tasks' = [tasks EXCEPT ![t] = r.tk]
                 /\ registry' = r.reg
           /\ handles' = IF IsDef(cb) THEN handles \cup {Handle(name, Val(cb))}
                         ELSE handles
           /\ consecFail' = IF IsDef(registry[name]) THEN consecFail
                            ELSE [consecFail EXCEPT ![name] = 0]
    /\ UNCHANGED <<now, pool>>

\* resilientFetch: cb is undefined (circuitBreaker: false) or the policy,
\* rt is undefined (retry: false) or the retry configuration; getOrCreate,
\* then the first attempt
StartFetch(t, name, cb, rt) ==
    /\ tasks[t].pc = "idle"
    /\ LET reg0 == IF ~IsDef(cb) \/ IsDef(registry[name]) THEN registry
                   ELSE [registry EXCEPT ![name] = Some(FreshRecord)]
           tk0 == [IdleTask EXCEPT
                     !.mode = "fetch",
                     !.h = Handle(name, IF IsDef(cb) THEN Val(cb) ELSE NoConfig),
                     !.useCB = IsDef(cb),
                     !.useRetry = IsDef(rt),
                     !.rcfg = IF IsDef(rt) THEN Val(rt) ELSE NoRetryConfig,
                     !.timeoutMs = FetchTimeoutMs,
                     !.attempt = 1]
       IN  /\ \E r \in Attempt(tk0, reg0, now) :
                 /\ tasks' = [tasks EXCEPT ![t] = r.tk]
                 /\ registry' = r.reg
           /\ handles' = IF IsDef(cb) THEN handles \cup {Handle(name, Val(cb))}
                         ELSE handles
           /\ consecFail' = IF ~IsDef(cb) \/ IsDef(registry[name]) THEN consecFail
                            ELSE [consecFail EXCEPT ![name] = 0]
    /\ UNCHANGED <<now, pool>>

\* fetchWithTimeout settles with a response before its timer has fired
Respond(t) ==
    /\ tasks[t].pc = "inflight"
    /\ tasks[t].mode = "fetch"
    /\ now - tasks[t].startedAt <= tasks[t].timeoutMs
    /\ \E status \in Statuses :
          LET o == Promote(status)
          IN  /\ \E r \in Finish([tasks[t] EXCEPT !.resp = Some(status),
                                                  !.out = Some(o),
                                                  !.obs = Observed(tasks[t], registry)],
                                 registry, o, now) :
                    /\ tasks' = [tasks EXCEPT ![t] = r.tk]
                    /\ registry' = r.reg
              /\ consecFail' = Counted(consecFail, tasks[t], o)
    /\ UNCHANGED <<now, handles, pool>>

\* the timer of fetchWithTimeout fires: abort, AbortError, TimeoutError
Abort(t) ==
    /\ tasks[t].pc = "inflight"
    /\ tasks[t].mode = "fetch"
    /\ now - tasks[t].startedAt >= tasks[t].timeoutMs
    /\ LET o == Fail(TimeoutError(StrFetch, tasks[t].timeoutMs))
       IN  /\ \E r \in Finish([tasks[t] EXCEPT !.resp = Undef,
                                               !.out = Some(o),
                                               !.obs = Observed(tasks[t], registry)],
                              registry, o, now) :
                 /\ tasks' = [tasks EXCEPT ![t] = r.tk]
                 /\ registry' = r.reg
           /\ consecFail' = Counted(consecFail, tasks[t], o)
    /\ UNCHANGED <<now, handles, pool>>

\* fetch rejects on its own before the timer has fired (a network failure):
\* fetchWithTimeout rethrows it
TransportFails(t) ==
    /\ tasks[t].pc = "inflight"
    /\ tasks[t].mode = "fetch"
    /\ now - tasks[t].startedAt <= tasks[t].timeoutMs
    /\ LET o == Fail(NetError)
       IN  /\ \E r \in Finish([tasks[t] EXCEPT !.resp = Undef,
                                               !.out = Some(o),
                                               !.obs = Observed(tasks[t], registry)],
                              registry, o, now) :
                 /\ tasks' = [tasks EXCEPT ![t] = r.tk]
                 /\ registry' = r.reg
           /\ consecFail' = Counted(consecFail, tasks[t], o)
    /\ UNCHANGED <<now, handles, pool>>

\* Task 1 is the call under study, with every combination of layers; task 2
\* is the concurrent traffic on the same name: single calls through the
\* breaker, which it may repeat at any time.
InitFetch ==
    /\ now = 1
    /\ registry = [n \in Names |-> Undef]
    /\ handles = {}
    /\ \E c \in FetchPolicies : pool = {c}
    /\ tasks = [t \in Tasks |-> IdleTask]
    /\ consecFail = [n \in Names |-> 0]

NextFetch ==
    \/ \E n \in Names, cb \in {Undef} \cup {Some(c) : c \in pool},
          rt \in {Undef} \cup {Some(c) : c \in FetchRetryConfigs} :
             StartFetch(1, n, cb, rt)
    \/ \E n \in Names, c \in pool : StartFetch(2, n, Some(c), Undef)
    \/ \E t \in Tasks : Respond(t)
    \/ \E t \in Tasks : Abort(t)
    \/ TransportFails(1)
    \/ \E t \in Tasks : Wake(t)
    \/ \E t \in Tasks : Return(t)
    \/ Tick(MaxTime)

SpecFetch == InitFetch /\ [][NextFetch]_vars

(***************************************************************************)
(* Vocabulary of the properties                                            *)
(***************************************************************************)
\* the record a handle of name n reads in registry reg
RecordIn(reg, n) == IF reg[n] = Undef THEN FreshRecord ELSE reg[n][1]

\* the policy all handles share when pool is a singleton
ThePolicy == CHOOSE c \in pool : TRUE

\* e carries a status listed in ignoredStatusCodes of config
CarriesIgnoredStatus(e, config) ==
    LET ignored == IF config.ignoredStatusCodes = Undef THEN {}
                   ELSE config.ignoredStatusCodes[1]
        statuses == (IF e.statusCode = Undef THEN {} ELSE {e.statusCode[1]})
                    \cup (IF e.status = Undef THEN {} ELSE {e.status[1]})
                    \cup (IF e.code = Undef \/ ParseInt(e.code[1]) = Undef THEN {}
                          ELSE {ParseInt(e.code[1])[1]})
    IN  e.isObject /\ statuses \cap ignored # {}

\* in this step the operation of task t settled (and the breaker saw it)
Completes(t) == tasks[t].pc = "inflight" /\ tasks'[t].pc # "inflight"

\* in this step task t began a call
Begins(t) == tasks[t].pc = "idle" /\ tasks'[t].pc # "idle"

ElapsedSinceOpen(rec) == now - rec.openedAt[1]

(***************************************************************************)
(* C1: closed -> open exactly at the failureThreshold-th non-ignored       *)
(* failure observed since the last observed success (or since creation,    *)
(* reset, close), not earlier; a success observed while closed sets the    *)
(* count back to zero.  One policy shared by all handles.                  *)
(***************************************************************************)
C1_CountIsConsecutive ==
    \A n \in Names :
        RecordIn(registry, n).state = "closed" =>
            /\ RecordIn(registry, n).failureCount = consecFail[n]
            /\ consecFail[n] < ThePolicy.failureThreshold

C1_Step ==
    \A t \in Tasks :
        (Completes(t) /\ tasks[t].useCB
            /\ RecordIn(registry, tasks[t].h.name).state = "closed") =>
        LET n == tasks[t].h.name
            o == tasks'[t].out[1]
            after == RecordIn(registry', n)
            counts == ~o.ok /\ ~CarriesIgnoredStatus(o.error, ThePolicy)
        IN  /\ after.state = "open" <=>
                  (counts /\ consecFail[n] + 1 = ThePolicy.failureThreshold)
            /\ (counts /\ after.state = "closed") => after.failureCount = consecFail[n] + 1
            /\ o.ok => after.failureCount = 0

C1_ClosedToOpen == [](C1_CountIsConsecutive) /\ [][C1_Step]_vars

C1_Witness ==
    \E n \in Names, t \in Tasks :
        /\ ThePolicy.failureThreshold = 2
        /\ RecordIn(registry, n).state = "open"
        /\ consecFail[n] = 2
        /\ tasks[t].pc = "done" /\ tasks[t].useCB /\ tasks[t].h.name = n
        /\ tasks[t].out # Undef /\ ~tasks[t].out[1].ok
        /\ RecordIn(registry, n).openedAt = RecordIn(registry, n).lastFailureTime

(***************************************************************************)
(* C2: a call on a handle whose record is open with less than              *)
(* resetTimeoutMs elapsed rejects with CircuitBreakerOpenError (name,      *)
(* remainingTimeoutMs = resetTimeoutMs - elapsed > 0), never invokes the   *)
(* operation and leaves the record unchanged.                              *)
(***************************************************************************)
C2_Step ==
    \A t \in Tasks :
        LET tk == tasks'[t]
            rec == RecordIn(registry, tk.h.name)
        IN  (/\ Begins(t) /\ tk.mode = "call"
             /\ rec.state = "open"
             /\ ElapsedSinceOpen(rec) < tk.h.config.resetTimeoutMs) =>
            /\ tk.pc = "done" /\ tk.invoked = 0 /\ tk.out = Undef
            /\ ~tk.result[1].ok
            /\ tk.result[1].error.name = "CircuitBreakerOpenError"
            /\ tk.result[1].error.extra.serviceName = tk.h.name
            /\ tk.result[1].error.extra.remainingTimeoutMs =
                   Max(0, tk.h.config.resetTimeoutMs - ElapsedSinceOpen(rec))
            /\ tk.result[1].error.extra.remainingTimeoutMs > 0
            /\ registry' = registry

C2_OpenFailsFast == [][C2_Step]_vars

C2_Witness ==
    \E t \in Tasks :
        /\ tasks[t].pc = "done" /\ tasks[t].mode = "call" /\ tasks[t].invoked = 0
        /\ tasks[t].result[1].error.name = "CircuitBreakerOpenError"
        /\ tasks[t].result[1].error.extra.remainingTimeoutMs = 1
        /\ RecordIn(registry, tasks[t].h.name).state = "open"

(***************************************************************************)
(* C3: open -> half-open is lazy.  A call that finds the record open with  *)
(* resetTimeoutMs or more elapsed moves it to half-open (successCount 0)   *)
(* and invokes the operation; the passage of time alone changes nothing,   *)
(* and no step moves open to half-open before the cooldown has elapsed.    *)
(***************************************************************************)
C3_Step ==
    /\ \A t \in Tasks :
          LET tk == tasks'[t]
              rec == RecordIn(registry, tk.h.name)
          IN  (/\ Begins(t) /\ tk.mode = "call"
               /\ rec.state = "open"
               /\ ElapsedSinceOpen(rec) >= tk.h.config.resetTimeoutMs) =>
              /\ tk.pc = "inflight" /\ tk.invoked = 1
              /\ RecordIn(registry', tk.h.name) =
                     [rec EXCEPT !.state = "half-open", !.successCount = 0]
    /\ now' # now => registry' = registry
    /\ \A n \in Names :
          (RecordIn(registry, n).state = "open"
              /\ RecordIn(registry', n).state = "half-open") =>
          /\ now' = now
          /\ ElapsedSinceOpen(RecordIn(registry, n)) >= ThePolicy.resetTimeoutMs

C3_LazyHalfOpen == [][C3_Step]_vars

C3_Witness ==
    \E t \in Tasks :
        LET rec == RecordIn(registry, tasks[t].h.name)
        IN  /\ tasks[t].pc = "inflight" /\ tasks[t].mode = "call"
            /\ rec.state = "half-open" /\ rec.successCount = 0
            /\ now - rec.openedAt[1] = tasks[t].h.config.resetTimeoutMs

(***************************************************************************)
(* C4: leaving half-open.  A success observed while half-open increments   *)
(* successCount and the record stays half-open, until the                  *)
(* successThreshold-th, which closes it with both counters 0; one          *)
(* non-ignored failure observed while half-open opens it at once, with a   *)
(* fresh open timestamp and successCount 0.  One policy.                   *)
(***************************************************************************)
C4_Step ==
    \A t \in Tasks :
        (Completes(t) /\ tasks[t].useCB
            /\ RecordIn(registry, tasks[t].h.name).state = "half-open") =>
        LET n == tasks[t].h.name
            o == tasks'[t].out[1]
            before == RecordIn(registry, n)
            after == RecordIn(registry', n)
        IN  /\ (o.ok /\ before.successCount + 1 < ThePolicy.successThreshold) =>
                  after = [before EXCEPT !.successCount = @ + 1]
            /\ (o.ok /\ before.successCount + 1 = ThePolicy.successThreshold) =>
                  /\ after.state = "closed"
                  /\ after.failureCount = 0 /\ after.successCount = 0
            /\ (~o.ok /\ ~CarriesIgnoredStatus(o.error, ThePolicy)) =>
                  /\ after.state = "open"
                  /\ after.openedAt = <<now>> /\ after.successCount = 0

C4_BelowThreshold ==
    \A n \in Names :
        RecordIn(registry, n).state = "half-open" =>
            RecordIn(registry, n).successCount < ThePolicy.successThreshold

C4_HalfOpenExit == [](C4_BelowThreshold) /\ [][C4_Step]_vars

C4_Witness ==
    \E t \in Tasks :
        LET rec == RecordIn(registry, tasks[t].h.name)
        IN  /\ ThePolicy.successThreshold = 2 /\ ThePolicy.failureThreshold = 2
            /\ tasks[t].pc = "done" /\ tasks[t].useCB
            /\ tasks[t].out # Undef /\ ~tasks[t].out[1].ok
            /\ ~CarriesIgnoredStatus(tasks[t].out[1].error, ThePolicy)
            /\ tasks[t].obs = <<[state |-> "half-open", successCount |-> 1]>>
            /\ rec.state = "open" /\ rec.openedAt = <<now>> /\ rec.successCount = 0

(***************************************************************************)
(* C5: a failure whose error carries a status of ignoredStatusCodes        *)
(* (statusCode, status, or a string code that parses to one) leaves the    *)
(* whole registry as it was, in closed and half-open alike, and the error  *)
(* reaches the caller.                                                     *)
(***************************************************************************)
C5_Step ==
    \A t \in Tasks :
        (/\ Completes(t) /\ tasks[t].mode = "call"
         /\ ~tasks'[t].out[1].ok
         /\ CarriesIgnoredStatus(tasks'[t].out[1].error, tasks[t].h.config)) =>
        /\ registry' = registry
        /\ tasks'[t].pc = "done"
        /\ tasks'[t].result = tasks'[t].out

C5_IgnoredFailureIsInvisible == [][C5_Step]_vars

C5_Witness ==
    \E t \in Tasks :
        LET rec == RecordIn(registry, tasks[t].h.name)
        IN  /\ tasks[t].pc = "done" /\ tasks[t].mode = "call"
            /\ tasks[t].out # Undef /\ ~tasks[t].out[1].ok
            /\ tasks[t].out[1].error.code = <<NumToStr(404)>>
            /\ CarriesIgnoredStatus(tasks[t].out[1].error, tasks[t].h.config)
            /\ tasks[t].obs = <<[state |-> "half-open", successCount |-> 1]>>
            /\ rec.state = "half-open" /\ rec.successCount = 1

(***************************************************************************)
(* C8: withRetry spends nothing on a terminal error.  When an attempt      *)
(* fails with an error isRetryableError rejects, the call ends there with  *)
(* RetryError: no sleep, no onRetry, no further invocation; failing so on  *)
(* the first attempt, the operation has been invoked exactly once.         *)
(***************************************************************************)
C8_Step ==
    \A t \in Tasks :
        (/\ Completes(t) /\ tasks[t].mode = "retry"
         /\ ~tasks'[t].out[1].ok
         /\ ~IsRetryableError(tasks'[t].out[1].error, tasks[t].rcfg)) =>
        /\ tasks'[t].pc = "done"
        /\ tasks'[t].result[1].error.name = "RetryError"
        /\ tasks'[t].sleeps = tasks[t].sleeps
        /\ tasks'[t].retryCtx = tasks[t].retryCtx
        /\ tasks'[t].invoked = tasks[t].invoked
        /\ tasks[t].attempt = 1 => (tasks'[t].invoked = 1 /\ tasks'[t].retryCtx = Undef)

\* a finished call is not resumed: it sleeps and invokes no more
C8_Final ==
    \A t \in Tasks :
        (tasks[t].mode = "retry" /\ tasks[t].pc = "done") =>
            (tasks'[t] = tasks[t] \/ tasks'[t] = IdleTask)

C8_TerminalErrorStops == [][C8_Step /\ C8_Final]_vars

C8_Witness ==
    \E t \in Tasks :
        /\ tasks[t].mode = "retry" /\ tasks[t].pc = "done"
        /\ tasks[t].rcfg.maxAttempts = 3
        /\ tasks[t].out = <<Fail(TestError(StrNotFound, 404))>>
        /\ ~IsRetryableError(tasks[t].out[1].error, tasks[t].rcfg)
        /\ tasks[t].invoked = 1 /\ tasks[t].sleeps = 0
        /\ tasks[t].result[1].error.name = "RetryError"

(***************************************************************************)
(* C9: withRetry returns the first success.  A retryable failure of an     *)
(* attempt before the last leads to the next attempt; the success of       *)
(* attempt k <= maxAttempts ends the call with that attempt's result,      *)
(* after exactly k invocations.                                            *)
(***************************************************************************)
C9_Step ==
    \A t \in Tasks :
        (Completes(t) /\ tasks[t].mode = "retry") =>
        /\ tasks'[t].out[1].ok =>
              (tasks'[t].pc = "done" /\ tasks'[t].result = tasks'[t].out)
        /\ (/\ ~tasks'[t].out[1].ok
            /\ IsRetryableError(tasks'[t].out[1].error, tasks[t].rcfg)
            /\ tasks[t].attempt < tasks[t].rcfg.maxAttempts) =>
              tasks'[t].pc = "sleeping"

C9_Result ==
    \A t \in Tasks :
        (tasks[t].mode = "retry" /\ tasks[t].pc = "done" /\ tasks[t].result[1].ok) =>
        /\ tasks[t].result[1].value = tasks[t].attempt
        /\ tasks[t].invoked = tasks[t].attempt
        /\ tasks[t].attempt <= tasks[t].rcfg.maxAttempts
        /\ tasks[t].sleeps = tasks[t].attempt - 1

C9_FirstSuccessReturned == [](C9_Result) /\ [][C9_Step /\ C8_Final]_vars

C9_Witness ==
    \E t \in Tasks :
        /\ tasks[t].mode = "retry" /\ tasks[t].pc = "done"
        /\ tasks[t].rcfg.maxAttempts = 3
        /\ tasks[t].result = <<Ok(3)>>
        /\ tasks[t].invoked = 3 /\ tasks[t].sleeps = 2
        /\ tasks[t].retryCtx[1].attempt = 2

(***************************************************************************)
(* C10: exhaustion.  The operation is never invoked more than maxAttempts  *)
(* times; a call whose final error is retryable ends only at attempt       *)
(* maxAttempts, with RetryError(attempts = maxAttempts, lastError = that   *)
(* error), after maxAttempts - 1 sleeps (none after the final attempt).    *)
(***************************************************************************)
C10_Exhausted ==
    \A t \in Tasks :
        tasks[t].mode = "retry" =>
        /\ tasks[t].invoked <= tasks[t].rcfg.maxAttempts
        /\ (/\ tasks[t].pc = "done" /\ ~tasks[t].result[1].ok
            /\ IsRetryableError(tasks[t].out[1].error, tasks[t].rcfg)) =>
              /\ tasks[t].invoked = tasks[t].rcfg.maxAttempts
              /\ tasks[t].sleeps = tasks[t].rcfg.maxAttempts - 1
              /\ tasks[t].result[1].error.name = "RetryError"
              /\ tasks[t].result[1].error.extra.attempts = tasks[t].rcfg.maxAttempts
              /\ tasks[t].result[1].error.extra.lastError = tasks[t].out[1].error

C10_Witness ==
    \E t \in Tasks :
        /\ tasks[t].mode = "retry" /\ tasks[t].pc = "done"
        /\ tasks[t].rcfg.maxAttempts = 3 /\ tasks[t].invoked = 3
        /\ tasks[t].out = <<Fail(TestError(StrFail, 503))>>
        /\ IsRetryableError(tasks[t].out[1].error, tasks[t].rcfg)
        /\ tasks[t].result[1].error.extra.attempts = 3
        /\ tasks[t].sleeps = 2

(***************************************************************************)
(* C6: in resilientFetch a response with status >= 500 becomes a thrown    *)
(* error with statusCode = status, which both layers see.                  *)
(***************************************************************************)
\* the transport of task t answered with status s in this step
Answers(t, s) ==
    Completes(t) /\ tasks[t].mode = "fetch" /\ tasks'[t].resp = <<s>>

\* the record after onFailure has counted a failure with the given message
CountedFailure(before, after, config, message) ==
    /\ after.lastFailureTime = <<now>>
    /\ after.lastError = <<message>>
    /\ before.state = "closed" =>
          IF before.failureCount + 1 >= config.failureThreshold
          THEN after.state = "open" /\ after.openedAt = <<now>>
          ELSE after.state = "closed" /\ after.failureCount = before.failureCount + 1
    /\ before.state = "half-open" => after.state = "open"

RetryableCodesOf(config) ==
    IF config.retryableStatusCodes = Undef THEN DefaultRetryableCodes
    ELSE config.retryableStatusCodes[1]

C6_Promoted(t, s) ==
    /\ ~tasks'[t].out[1].ok
    /\ tasks'[t].out[1].error.isError
    /\ tasks'[t].out[1].error.statusCode = <<s>>

C6_Retried(t, s) ==
    (/\ tasks[t].useRetry
     /\ s \in RetryableCodesOf(tasks[t].rcfg)
     /\ tasks[t].attempt < tasks[t].rcfg.maxAttempts) =>
    /\ tasks'[t].pc = "sleeping"
    /\ tasks'[t].retryCtx[1].lastError.statusCode = <<s>>

\* C6 as claimed: the breaker counts every such failure
C6_OriginalStep ==
    \A t \in Tasks, s \in Statuses :
        (Answers(t, s) /\ s >= 500) =>
        /\ C6_Promoted(t, s)
        /\ tasks[t].useCB =>
              CountedFailure(RecordIn(registry, tasks[t].h.name),
                             RecordIn(registry', tasks[t].h.name),
                             tasks[t].h.config, StrHttp \o NumToStr(s))
        /\ C6_Retried(t, s)

C6_Original == [][C6_OriginalStep]_vars

\* C6 amended: the breaker counts it unless the status is one of the
\* policy's ignoredStatusCodes, and then the registry is left as it was
C6_AmendedStep ==
    \A t \in Tasks, s \in Statuses :
        (Answers(t, s) /\ s >= 500) =>
        /\ C6_Promoted(t, s)
        /\ tasks[t].useCB =>
              IF tasks[t].h.config.ignoredStatusCodes # Undef
                 /\ s \in tasks[t].h.config.ignoredStatusCodes[1]
              THEN registry' = registry
              ELSE CountedFailure(RecordIn(registry, tasks[t].h.name),
                                  RecordIn(registry', tasks[t].h.name),
                                  tasks[t].h.config, StrHttp \o NumToStr(s))
        /\ C6_Retried(t, s)

C6_ServerErrorIsFailure == [][C6_AmendedStep]_vars

C6_Witness ==
    \E t \in Tasks :
        LET rec == RecordIn(registry, tasks[t].h.name)
        IN  /\ tasks[t].mode = "fetch" /\ tasks[t].useCB /\ tasks[t].useRetry
            /\ tasks[t].h.config.ignoredStatusCodes = <<{404}>>
            /\ tasks[t].h.config.failureThreshold = 2
            /\ tasks[t].pc = "sleeping" /\ tasks[t].attempt = 2
            /\ tasks[t].resp = <<503>>
            /\ tasks[t].out = <<Fail(HttpError(503))>>
            /\ rec.state = "open" /\ rec.openedAt = <<now>>
            /\ rec.lastError = <<StrHttp \o NumToStr(503)>>

(***************************************************************************)
(* C7: in resilientFetch with breaker and retry, every retry attempt       *)
(* passes through breaker.call again.                                      *)
(***************************************************************************)
\* in this step the retry sleep of task t ended and its next attempt began
Resumes(t) == tasks[t].pc = "sleeping" /\ tasks'[t].pc # "sleeping"

\* the failure of the latest attempt, as the retry layer holds it
LatestFailure(tk) ==
    IF tk.pc = "done" THEN tk.result[1].error.extra.lastError
    ELSE tk.retryCtx[1].lastError

\* C7 as claimed: once the record is open, a call in its retry sequence
\* does not invoke the transport again
C7_OriginalStep ==
    \A t \in Tasks :
        (/\ tasks[t].mode = "fetch" /\ tasks[t].useCB /\ tasks[t].useRetry
         /\ tasks[t].pc = "sleeping"
         /\ RecordIn(registry, tasks[t].h.name).state = "open") =>
        tasks'[t].invoked = tasks[t].invoked

C7_Original == [][C7_OriginalStep]_vars

\* C7 amended: an attempt that starts while the record is open and the
\* cooldown has not elapsed is rejected by the breaker, the transport not
\* invoked and the record untouched; one that starts when the cooldown has
\* elapsed is admitted as the half-open probe and invokes the transport.
C7_AmendedStep ==
    \A t \in Tasks :
        (Resumes(t) /\ tasks[t].mode = "fetch" /\ tasks[t].useCB) =>
        LET rec == RecordIn(registry, tasks[t].h.name)
        IN  IF rec.state = "open"
               /\ ElapsedSinceOpen(rec) < tasks[t].h.config.resetTimeoutMs
            THEN /\ tasks'[t].invoked = tasks[t].invoked
                 /\ tasks'[t].pc # "inflight"
                 /\ LatestFailure(tasks'[t]).name = "CircuitBreakerOpenError"
                 /\ registry' = registry
            ELSE /\ tasks'[t].invoked = tasks[t].invoked + 1
                 /\ tasks'[t].pc = "inflight"
                 /\ rec.state = "open" =>
                       RecordIn(registry', tasks[t].h.name).state = "half-open"

C7_RetryReentersBreaker == [][C7_AmendedStep]_vars

C7_Witness ==
    \E t \in Tasks :
        /\ tasks[t].mode = "fetch" /\ tasks[t].useCB /\ tasks[t].useRetry
        /\ tasks[t].pc = "done" /\ tasks[t].attempt = 2 /\ tasks[t].invoked = 1
        /\ tasks[t].rcfg.maxAttempts = 3
        /\ tasks[t].out = <<Fail(HttpError(503))>>
        /\ tasks[t].result[1].error.name = "RetryError"
        /\ tasks[t].result[1].error.extra.lastError.name = "CircuitBreakerOpenError"
        /\ RecordIn(registry, tasks[t].h.name).state = "open"


(***************************************************************************)
(* C11: whenever withRetry rejects with RetryError, its attempts field is  *)
(* the number of times the operation was invoked by that call, on          *)
(* exhaustion and on an early stop alike.                                  *)
(***************************************************************************)
C11_AttemptsIsInvocations ==
    \A t \in Tasks :
        (/\ tasks[t].mode = "retry" /\ tasks[t].pc = "done"
         /\ ~tasks[t].result[1].ok
         /\ tasks[t].result[1].error.name = "RetryError") =>
        tasks[t].result[1].error.extra.attempts = tasks[t].invoked


(***************************************************************************)
(* Handles of one name with different policies: the name is created with   *)
(* the policy in pool, later getOrCreate calls pass another policy.        *)
(***************************************************************************)
MaxHandles == 2

MixedPolicies ==
    [failureThreshold : 1..MaxThreshold,
     resetTimeoutMs : {ResetTimeoutMs, ResetTimeoutMs + 1},
     successThreshold : {1},
     ignoredStatusCodes : {Undef}]

\* getOrCreate(name, config) on a registered name with a policy other than
\* the one it was created with
GetOrCreateLater(name, config) ==
    /\ config \notin pool
    /\ IsDef(registry[name])
    /\ Cardinality(handles \cup {Handle(name, config)}) <= MaxHandles
    /\ GetOrCreate(name, config)

InitMixed ==
    /\ now = 1
    /\ registry = [n \in Names |-> Undef]
    /\ handles = {}
    /\ \E c \in MixedPolicies : pool = {c}
    /\ tasks = [t \in Tasks |-> IdleTask]
    /\ consecFail = [n \in Names |-> 0]

NextMixed ==
    \/ \E n \in Names, c \in pool : GetOrCreate(n, c)
    \/ \E n \in Names, c \in MixedPolicies : GetOrCreateLater(n, c)
    \/ \E h \in handles : Call(1, h)
    \/ Complete(1)
    \/ Return(1)
    \/ Tick(MaxTime)
    \/ \E h \in handles : ForceOpen(h)
    \/ \E h \in handles : ForceClose(h)
    \/ \E h \in handles : Reset(h)
    \/ \E h \in handles : IsAllowingRequests(h)

SpecMixed == InitMixed /\ [][NextMixed]_vars

(***************************************************************************)
(* C12: the policy of a named breaker is fixed at creation; outcomes       *)
(* reported through a handle obtained later with another policy are still  *)
(* judged against the thresholds of the policy the name was created with.  *)
(***************************************************************************)
\* a failure the breaker counts settles a call of t on a closed record
FailsWhileClosed(t) ==
    /\ Completes(t) /\ tasks[t].useCB
    /\ ~tasks'[t].out[1].ok
    /\ ~CarriesIgnoredStatus(tasks'[t].out[1].error, tasks[t].h.config)
    /\ RecordIn(registry, tasks[t].h.name).state = "closed"

C12_Step ==
    \A t \in Tasks :
        /\ FailsWhileClosed(t) =>
              (RecordIn(registry', tasks[t].h.name).state = "open"
               <=> RecordIn(registry, tasks[t].h.name).failureCount + 1
                      >= ThePolicy.failureThreshold)
        /\ (/\ Begins(t) /\ tasks'[t].useCB
            /\ RecordIn(registry, tasks'[t].h.name).state = "open"
            /\ Truthy(RecordIn(registry, tasks'[t].h.name).openedAt)) =>
              (tasks'[t].pc = "done"
               <=> ElapsedSinceOpen(RecordIn(registry, tasks'[t].h.name))
                      < ThePolicy.resetTimeoutMs)

C12_PolicyFixedAtCreation == [][C12_Step]_vars


(***************************************************************************)
(* C13: the record of a name is a singleton.  Whatever handle of the name  *)
(* an operation goes through, it reads and writes registry[name]: a call   *)
(* through any handle is rejected when that record is open and within the  *)
(* handle's cooldown and admitted when it is closed or half-open, a counted *)
(* failure through any handle is written to that record, and getOrCreate   *)
(* on a registered name leaves the record as it was.                       *)
(***************************************************************************)
C13_Step ==
    /\ \A n \in Names :
          (handles' # handles /\ IsDef(registry[n])) => registry'[n] = registry[n]
    /\ \A t \in Tasks :
          (Begins(t) /\ tasks'[t].useCB) =>
          LET h == tasks'[t].h
              rec == RecordIn(registry, h.name)
          IN  /\ (/\ rec.state = "open" /\ Truthy(rec.openedAt)
                  /\ ElapsedSinceOpen(rec) < h.config.resetTimeoutMs) =>
                    /\ tasks'[t].pc = "done"
                    /\ tasks'[t].result[1].error.name = "CircuitBreakerOpenError"
                    /\ tasks'[t].result[1].error.extra.serviceName = h.name
                    /\ registry' = registry
              /\ rec.state # "open" => tasks'[t].pc = "inflight"
    /\ \A t \in Tasks :
          FailsWhileClosed(t) =>
          LET rec == RecordIn(registry, tasks[t].h.name)
              after == RecordIn(registry', tasks[t].h.name)
          IN  /\ after.lastFailureTime = <<now>>
              /\ IF rec.failureCount + 1 >= tasks[t].h.config.failureThreshold
                 THEN after.state = "open" /\ after.openedAt = <<now>>
                 ELSE after.state = "closed"
                      /\ after.failureCount = rec.failureCount + 1

C13_SingletonRecord == [][C13_Step]_vars

\* A call through the later handle, whose failureThreshold 1 never stores
\* a failureCount above 0, is rejected on a record that holds failureCount
\* 1 and was opened by a failure: both written through other handles.
C13_Witness ==
    /\ Cardinality(handles) = 2
    /\ tasks[1].pc = "done" /\ tasks[1].useCB
    /\ tasks[1].h.config \notin pool
    /\ tasks[1].h.config.failureThreshold = 1
    /\ tasks[1].invoked = 0
    /\ tasks[1].result[1].error.name = "CircuitBreakerOpenError"
    /\ RecordIn(registry, tasks[1].h.name).state = "open"
    /\ RecordIn(registry, tasks[1].h.name).failureCount = 1
    /\ RecordIn(registry, tasks[1].h.name).openedAt
          = RecordIn(registry, tasks[1].h.name).lastFailureTime


(***************************************************************************)
(* C14: while a record is half-open, the operations in flight that the     *)
(* breaker let through in half-open never exceed successThreshold.         *)
(***************************************************************************)
\* the calls in flight on name n that were let through in half-open
Probes(n) ==
    {t \in Tasks : /\ tasks[t].pc = "inflight" /\ tasks[t].useCB
                   /\ tasks[t].h.name = n
                   /\ tasks[t].adm = <<"half-open">>}

C14_ProbesAreLimited ==
    \A n \in Names :
        RecordIn(registry, n).state = "half-open" =>
        Cardinality(Probes(n)) <= ThePolicy.successThreshold


(***************************************************************************)
(* withTimeout(promise, timeoutMs, operation)                              *)
(* The promise settles at or before the deadline, or the timer fires at or *)
(* after it; at the deadline itself either may come first.                 *)
(***************************************************************************)
MaxDeadline == 2

StrUnknown == <<"u", "n", "k", "n", "o", "w", "n">>
StrSlow == <<"s", "l", "o", "w">>

\* what the guarded promise may settle with
PromiseOutcomes == {Ok("completed"), Fail(PlainError)}

\* the default of the parameter operation
OperationOf(tk) == IF IsDef(tk.label) THEN Val(tk.label) ELSE StrUnknown

\* withTimeout is called: setTimeout arms the timer, the race is awaited
StartTimeout(t, d, label) ==
    /\ tasks[t].pc = "idle"
    /\ now + d <= MaxTime
    /\ tasks' = [tasks EXCEPT ![t] =
                    [IdleTask EXCEPT !.pc = "inflight", !.mode = "timeout",
                                     !.timeoutMs = d, !.startedAt = now,
                                     !.label = label, !.timer = "armed"]]
    /\ UNCHANGED <<now, registry, handles, pool, consecFail>>

\* mutant: the finally block does not clear the timer
PromiseSettles_NoClear(t) ==
    /\ tasks[t].pc = "inflight"
    /\ tasks[t].mode = "timeout"
    /\ now - tasks[t].startedAt <= tasks[t].timeoutMs
    /\ \E o \in PromiseOutcomes :
          tasks' = [tasks EXCEPT ![t] = Done([tasks[t] EXCEPT !.out = Some(o)], o)]
    /\ UNCHANGED <<now, registry, handles, pool, consecFail>>

\* the promise wins the race: its outcome is the result, finally clears
\* the timer
PromiseSettles(t) ==
    /\ tasks[t].pc = "inflight"
    /\ tasks[t].mode = "timeout"
    /\ now - tasks[t].startedAt <= tasks[t].timeoutMs
    /\ \E o \in PromiseOutcomes :
          tasks' = [tasks EXCEPT ![t] =
                       Done([tasks[t] EXCEPT !.out = Some(o), !.timer = "cleared"], o)]
    /\ UNCHANGED <<now, registry, handles, pool, consecFail>>

\* mutant: a deadline of 0 arms no timer
TimerFires_NotForZero(t) ==
    /\ tasks[t].mode = "timeout"
    /\ tasks[t].timer = "armed"
    /\ tasks[t].timeoutMs > 0
    /\ now - tasks[t].startedAt >= tasks[t].timeoutMs
    /\ tasks' = [tasks EXCEPT ![t] =
                    IF tasks[t].pc = "inflight"
                    THEN Done([tasks[t] EXCEPT !.timer = "fired"],
                              Fail(TimeoutError(OperationOf(tasks[t]),
                                                tasks[t].timeoutMs)))
                    ELSE [tasks[t] EXCEPT !.timer = "fired"]]
    /\ UNCHANGED <<now, registry, handles, pool, consecFail>>

\* the timer callback runs: reject(new TimeoutError(operation, timeoutMs));
\* it settles the race unless the race is already settled
TimerFires(t) ==
    /\ tasks[t].mode = "timeout"
    /\ tasks[t].timer = "armed"
    /\ now - tasks[t].startedAt >= tasks[t].timeoutMs
    /\ tasks' = [tasks EXCEPT ![t] =
                    IF tasks[t].pc = "inflight"
                    THEN Done([tasks[t] EXCEPT !.timer = "fired"],
                              Fail(TimeoutError(OperationOf(tasks[t]),
                                                tasks[t].timeoutMs)))
                    ELSE [tasks[t] EXCEPT !.timer = "fired"]]
    /\ UNCHANGED <<now, registry, handles, pool, consecFail>>

NextTimeout ==
    \/ \E t \in Tasks, d \in 0..MaxDeadline, label \in {Undef, Some(StrSlow)} :
          StartTimeout(t, d, label)
    \/ \E t \in Tasks : PromiseSettles(t)
    \/ \E t \in Tasks : TimerFires(t)
    \/ \E t \in Tasks : Return(t)
    \/ Tick(MaxTime)

SpecTimeout == InitRetry /\ [][NextTimeout]_vars

\* time passes, and the runtime runs a timer that is due
SpecTimeoutLive ==
    /\ SpecTimeout
    /\ WF_vars(Tick(MaxTime))
    /\ \A t \in Tasks : WF_vars(TimerFires(t))


(***************************************************************************)
(* C15: withTimeout with any deadline d >= 0, also 0: a call that settles  *)
(* after d has elapsed rejects with TimeoutError(timeoutMs = d, operation  *)
(* = the label, 'unknown' by default), and every call settles, also when   *)
(* the promise never does.                                                 *)
(***************************************************************************)
C15_Step ==
    \A t \in Tasks :
        (/\ Completes(t) /\ tasks[t].mode = "timeout"
         /\ now - tasks[t].startedAt > tasks[t].timeoutMs) =>
        /\ ~tasks'[t].result[1].ok
        /\ tasks'[t].result[1].error.name = "TimeoutError"
        /\ tasks'[t].result[1].error.extra.timeoutMs = tasks[t].timeoutMs
        /\ tasks'[t].result[1].error.extra.operation =
              (IF tasks[t].label = Undef THEN StrUnknown ELSE tasks[t].label[1])

C15_Settles ==
    \A t \in Tasks :
        (tasks[t].mode = "timeout" /\ tasks[t].pc = "inflight")
            ~> (tasks[t].pc # "inflight")

C15_DeadlineIsKept == [][C15_Step]_vars /\ C15_Settles

C15_Witness ==
    \E t \in Tasks :
        /\ tasks[t].mode = "timeout" /\ tasks[t].pc = "done"
        /\ tasks[t].timeoutMs = 0 /\ tasks[t].label = Undef
        /\ tasks[t].out = Undef
        /\ now > tasks[t].startedAt
        /\ tasks[t].result = <<Fail(TimeoutError(StrUnknown, 0))>>

(***************************************************************************)
(* C16: a promise that settles before the deadline gives withTimeout       *)
(* exactly its outcome, and once withTimeout has settled, on any path, its *)
(* timer is not pending and does not fire later.                           *)
(***************************************************************************)
C16_Step ==
    \A t \in Tasks :
        /\ (/\ Completes(t) /\ tasks[t].mode = "timeout"
            /\ now - tasks[t].startedAt < tasks[t].timeoutMs) =>
              /\ tasks'[t].out # Undef
              /\ tasks'[t].out[1] \in PromiseOutcomes
              /\ tasks'[t].result = tasks'[t].out
        /\ (tasks[t].mode = "timeout" /\ tasks[t].pc = "done"
            /\ tasks'[t].mode = "timeout") =>
              tasks'[t].timer = tasks[t].timer

C16_NoTimerPending ==
    \A t \in Tasks :
        (tasks[t].mode = "timeout" /\ tasks[t].pc = "done") =>
        tasks[t].timer \in {"cleared", "fired"}

C16_OutcomeAndTimer == []C16_NoTimerPending /\ [][C16_Step]_vars

C16_Witness ==
    \E t \in Tasks :
        /\ tasks[t].mode = "timeout" /\ tasks[t].pc = "done"
        /\ tasks[t].timeoutMs = 2 /\ now - tasks[t].startedAt = 1
        /\ tasks[t].result = <<Fail(PlainError)>>
        /\ tasks[t].timer = "cleared"


(***************************************************************************)
(* resilientFetch over a transport that need not honour the abort signal:  *)
(* controller.abort() has been called at the deadline, the transport goes  *)
(* on and settles later with a response.                                   *)
(***************************************************************************)
\* fetch resolves after the timer callback has called controller.abort()
RespondLate(t) ==
    /\ tasks[t].pc = "inflight"
    /\ tasks[t].mode = "fetch"
    /\ now - tasks[t].startedAt > tasks[t].timeoutMs
    /\ \E status \in Statuses :
          LET o == Promote(status)
          IN  /\ \E r \in Finish([tasks[t] EXCEPT !.resp = Some(status),
                                                  !.out = Some(o),
                                                  !.obs = Observed(tasks[t], registry)],
                                 registry, o, now) :
                    /\ tasks' = [tasks EXCEPT ![t] = r.tk]
                    /\ registry' = r.reg
              /\ consecFail' = Counted(consecFail, tasks[t], o)
    /\ UNCHANGED <<now, handles, pool>>

\* the clock runs one step further than in NextFetch, past the deadline of
\* an attempt started at the first instant
NextFetchAnyTransport ==
    \/ NextFetch
    \/ Tick(MaxTime + 1)
    \/ \E t \in Tasks : RespondLate(t)

SpecFetchAnyTransport == InitFetch /\ [][NextFetchAnyTransport]_vars

(***************************************************************************)
(* C17: every attempt of fetchWithTimeout / resilientFetch stops waiting   *)
(* at its deadline, whether or not the transport honours the abort signal: *)
(* an attempt that has not settled when timeoutMs has elapsed since it     *)
(* started ends with TimeoutError('fetch', timeoutMs).                     *)
(***************************************************************************)
C17_Step ==
    \A t \in Tasks :
        (/\ Completes(t) /\ tasks[t].mode = "fetch"
         /\ now - tasks[t].startedAt > tasks[t].timeoutMs) =>
        tasks'[t].out = <<Fail(TimeoutError(StrFetch, tasks[t].timeoutMs))>>

C17_StopsAtDeadline == [][C17_Step]_vars


(***************************************************************************)
(* C18: in resilientFetch with the breaker enabled, a 4xx response whose   *)
(* status is in the policy's ignored set never increments failureCount and *)
(* never opens the circuit, and the call ends with that response without   *)
(* another invocation of the transport, retry enabled or not.              *)
(***************************************************************************)
IgnoredClientError(t, s) ==
    /\ Answers(t, s) /\ tasks[t].useCB
    /\ s >= 400 /\ s < 500
    /\ s \in IgnoredCodes(tasks[t].h.config)

C18_Step ==
    \A t \in Tasks, s \in Statuses :
        IgnoredClientError(t, s) =>
        LET rec == RecordIn(registry, tasks[t].h.name)
            after == RecordIn(registry', tasks[t].h.name)
        IN  /\ after.failureCount <= rec.failureCount
            /\ rec.state = "closed" => after.state = "closed" /\ after.failureCount = 0
            /\ after.state = "open" => rec.state = "open"
            /\ after.lastFailureTime = rec.lastFailureTime
            /\ after.lastError = rec.lastError \/ after.lastError = Undef
            /\ tasks'[t].pc = "done"
            /\ tasks'[t].result = <<Ok(s)>>
            /\ tasks'[t].invoked = tasks[t].invoked
            /\ tasks'[t].sleeps = tasks[t].sleeps
            /\ tasks[t].attempt = 1 => tasks'[t].invoked = 1

C18_IgnoredClientErrorIsHarmless == [][C18_Step]_vars

\* two such responses in a row under failureThreshold 1, retry enabled
C18_Witness ==
    /\ \A t \in Tasks :
          /\ tasks[t].mode = "fetch" /\ tasks[t].useCB /\ tasks[t].pc = "done"
          /\ tasks[t].h.config.failureThreshold = 1
          /\ tasks[t].resp = <<404>> /\ tasks[t].result = <<Ok(404)>>
          /\ tasks[t].invoked = 1
    /\ tasks[1].useRetry /\ tasks[1].rcfg.maxAttempts = 3
    /\ RecordIn(registry, StrSvc).state = "closed"
    /\ RecordIn(registry, StrSvc).failureCount = 0
    /\ RecordIn(registry, StrSvc).lastFailureTime = Undef


(***************************************************************************)
(* C19: a resilientFetch call with circuitBreaker: false neither reads nor *)
(* writes the registry: no step of it changes the registry or the handles, *)
(* it creates no record for its name, and it is let through to the         *)
(* transport whatever the record of that name says, also when it fails.    *)
(***************************************************************************)
\* task t takes a step of a call that has the breaker disabled
StepsWithoutBreaker(t) ==
    /\ tasks'[t] # tasks[t]
    /\ \/ tasks[t].mode = "fetch" /\ ~tasks[t].useCB
       \/ Begins(t) /\ tasks'[t].mode = "fetch" /\ ~tasks'[t].useCB

C19_Step ==
    \A t \in Tasks :
        StepsWithoutBreaker(t) =>
        /\ registry' = registry
        /\ handles' = handles
        /\ (Begins(t) \/ Resumes(t)) =>
              /\ tasks'[t].pc = "inflight"
              /\ tasks'[t].invoked = tasks[t].invoked + 1 \/ Begins(t)
        /\ Begins(t) => tasks'[t].invoked = 1

C19_DisabledBreakerIsUntouched == [][C19_Step]_vars

\* the call started after the record of its name was opened by the other
\* call, within the cooldown, reached the transport and failed; the record
\* still shows the other call's failure only
C19_Witness ==
    /\ tasks[1].mode = "fetch" /\ ~tasks[1].useCB /\ tasks[1].pc = "done"
    /\ tasks[1].invoked = 1
    /\ tasks[1].result = <<Fail(HttpError(503))>>
    /\ RecordIn(registry, StrSvc).state = "open"
    /\ RecordIn(registry, StrSvc).openedAt = <<tasks[1].startedAt - 1>>
    /\ RecordIn(registry, StrSvc).lastFailureTime = <<tasks[1].startedAt - 1>>
    /\ now = tasks[1].startedAt

(***************************************************************************)
(* C20: resilientFetch with retry: false makes one attempt, and a failure  *)
(* of it reaches the caller as it is: the promoted 5xx error, the          *)
(* TimeoutError, the transport's error or the breaker's                    *)
(* CircuitBreakerOpenError, never a RetryError and never after a sleep.    *)
(***************************************************************************)
C20_SingleAttempt ==
    \A t \in Tasks :
        (tasks[t].mode = "fetch" /\ ~tasks[t].useRetry) =>
        /\ tasks[t].attempt = 1 /\ tasks[t].invoked <= 1
        /\ tasks[t].sleeps = 0 /\ tasks[t].pc # "sleeping"
        /\ tasks[t].pc = "done" =>
              IF tasks[t].invoked = 1
              THEN tasks[t].result = tasks[t].out
              ELSE /\ tasks[t].useCB
                   /\ ~tasks[t].result[1].ok
                   /\ tasks[t].result[1].error.name = "CircuitBreakerOpenError"

C20_Step ==
    \A t \in Tasks :
        (tasks[t].mode = "fetch" /\ ~tasks[t].useRetry /\ Completes(t)) =>
        /\ tasks'[t].pc = "done"
        /\ tasks'[t].result = tasks'[t].out
        /\ ~tasks'[t].out[1].ok =>
              tasks'[t].out[1].error \in
                  {HttpError(503), TimeoutError(StrFetch, tasks[t].timeoutMs), NetError}

C20_NoRetryPropagates == []C20_SingleAttempt /\ [][C20_Step]_vars

\* a retryable failure (the message reads "connection refused" in lower
\* case) reached the caller at once with the breaker enabled
C20_Witness ==
    /\ tasks[1].mode = "fetch" /\ ~tasks[1].useRetry /\ tasks[1].useCB
    /\ tasks[1].pc = "done" /\ tasks[1].invoked = 1
    /\ tasks[1].result = <<Fail(NetError)>>
    /\ IsRetryableError(NetError, CHOOSE c \in FetchRetryConfigs : TRUE)


(***************************************************************************)
(* resilientFetch with breaker and retry, the retry configuration naming   *)
(* string error codes (retryableErrorCodes) or not.                        *)
(***************************************************************************)
CodeRetryConfigs ==
    [maxAttempts : 1..MaxAttempts,
     baseDelayMs : {1},
     maxDelayMs : {1},
     backoffMultiplier : {Undef},
     jitter : {Undef},
     retryableStatusCodes : {Undef, Some({})},
     retryableErrorCodes : {Undef, Some({StrTimeoutCode}), Some({StrCircuitOpen})}]

NextFetchCodes ==
    \/ \E n \in Names, c \in pool, rc \in CodeRetryConfigs :
          StartFetch(1, n, Some(c), Some(rc))
    \/ \E n \in Names, c \in pool : StartFetch(2, n, Some(c), Undef)
    \/ \E t \in Tasks : Respond(t)
    \/ \E t \in Tasks : Abort(t)
    \/ TransportFails(1)
    \/ Wake(1)
    \/ \E t \in Tasks : Return(t)
    \/ Tick(MaxTime)

SpecFetchCodes == InitFetch /\ [][NextFetchCodes]_vars

(***************************************************************************)
(* C21: a circuit-open failure is never retryable: isRetryableError is     *)
(* false for a CircuitBreakerOpenError under every RetryConfig, so         *)
(* withRetry never sleeps and re-attempts after a circuit-open rejection.  *)
(***************************************************************************)
\* in this step an attempt of task t was rejected by the open breaker
RejectedByBreaker(t) ==
    /\ Begins(t) \/ Resumes(t)
    /\ tasks'[t].pc # "inflight"
    /\ tasks'[t].useCB /\ tasks'[t].useRetry

C21_Step ==
    \A t \in Tasks :
        RejectedByBreaker(t) =>
        /\ LatestFailure(tasks'[t]).name = "CircuitBreakerOpenError"
        /\ ~IsRetryableError(LatestFailure(tasks'[t]), tasks'[t].rcfg)
        /\ tasks'[t].pc = "done"
        /\ tasks'[t].sleeps = tasks[t].sleeps

C21_CircuitOpenIsTerminal == [][C21_Step]_vars

(***************************************************************************)
(* calculateRetryDelay applied to bounded inputs: a task computes one      *)
(* delay and holds the attempt number, the configuration and the result.   *)
(***************************************************************************)
MaxBaseDelay == 2
MaxDelayCap == 5
MaxMultiplier == 3
MaxDelayAttempt == 4

DelayConfigs ==
    [maxAttempts : {MaxDelayAttempt},
     baseDelayMs : 1..MaxBaseDelay,
     maxDelayMs : 1..MaxDelayCap,
     backoffMultiplier : {Undef} \cup {Some(k) : k \in 0..MaxMultiplier},
     jitter : {Undef, Some(FALSE), Some(TRUE)},
     retryableStatusCodes : {Undef},
     retryableErrorCodes : {Undef}]

ComputeDelay(t, attempt, config) ==
    /\ tasks[t].pc = "idle"
    /\ \E d \in CalculateRetryDelay(attempt, config) :
          tasks' = [tasks EXCEPT ![t] =
                       [IdleTask EXCEPT !.pc = "done", !.mode = "delay",
                                        !.attempt = attempt, !.rcfg = config,
                                        !.result = Some(Ok(d))]]
    /\ UNCHANGED <<now, registry, handles, pool, consecFail>>

NextDelay ==
    \/ \E n \in 1..MaxDelayAttempt, c \in DelayConfigs : ComputeDelay(1, n, c)
    \/ Return(1)

SpecDelay == InitRetry /\ [][NextDelay]_vars

(***************************************************************************)
(* C22: with jitter disabled calculateRetryDelay(n, policy) is exactly     *)
(* min(baseDelayMs * backoffMultiplier^(n-1), maxDelayMs), the multiplier  *)
(* defaulting to 2; it never exceeds maxDelayMs and, for a multiplier of   *)
(* at least 1, it does not decrease as n grows.                            *)
(***************************************************************************)
RECURSIVE GeometricTerm(_, _, _)
\* base * multiplier^(n-1) by repeated multiplication
GeometricTerm(base, multiplier, n) ==
    IF n = 1 THEN base ELSE multiplier * GeometricTerm(base, multiplier, n - 1)

C22_DelayIsCappedExponential ==
    \A t \in Tasks :
        LET tk == tasks[t]
            c == tk.rcfg
            m == IF c.backoffMultiplier = Undef THEN 2 ELSE c.backoffMultiplier[1]
            d == tk.result[1].value
        IN  (tk.mode = "delay" /\ c.jitter \in {Undef, <<FALSE>>}) =>
            /\ d = Min(GeometricTerm(c.baseDelayMs, m, tk.attempt), c.maxDelayMs)
            /\ d <= c.maxDelayMs
            /\ m >= 1 => \A e \in CalculateRetryDelay(tk.attempt + 1, c) : d <= e

\* third attempt, default multiplier, base 1: exactly 4, below the cap 5
C22_Witness ==
    /\ tasks[1].mode = "delay" /\ tasks[1].attempt = 3
    /\ tasks[1].rcfg.jitter = <<FALSE>>
    /\ tasks[1].rcfg.backoffMultiplier = Undef
    /\ tasks[1].rcfg.baseDelayMs = 1 /\ tasks[1].rcfg.maxDelayMs = 5
    /\ tasks[1].result[1].value = 4


(***************************************************************************)
(* C23: within one withRetry call the attempts are strictly sequential:    *)
(* at most one is in flight; attempt n+1 starts only after attempt n has   *)
(* rejected, onRetry has been called with attempt = n, and the delay       *)
(* computed for attempt n has fully elapsed.                               *)
(***************************************************************************)
\* the operation is invoked only by a call that has none in flight, and the
\* n-th invocation is attempt n
C23_OneInFlight ==
    \A t \in Tasks :
        tasks[t].mode = "retry" =>
        /\ tasks[t].pc = "inflight" => tasks[t].invoked = tasks[t].attempt
        /\ tasks[t].pc = "sleeping" =>
              /\ tasks[t].invoked = tasks[t].attempt
              /\ ~tasks[t].out[1].ok
              /\ tasks[t].retryCtx[1].attempt = tasks[t].attempt

C23_Step ==
    \A t \in Tasks :
        /\ tasks'[t].invoked > tasks[t].invoked =>
              /\ tasks[t].pc # "inflight" /\ tasks'[t].pc = "inflight"
              /\ tasks'[t].invoked = tasks[t].invoked + 1
        /\ (Completes(t) /\ tasks'[t].pc = "sleeping") =>
              /\ tasks'[t].retryCtx[1].delayMs
                    \in CalculateRetryDelay(tasks[t].attempt, tasks[t].rcfg)
              /\ tasks'[t].wakeAt = now + tasks'[t].retryCtx[1].delayMs
        /\ Resumes(t) =>
              /\ tasks'[t].attempt = tasks[t].attempt + 1
              /\ now >= tasks[t].wakeAt
              /\ now' = now

C23_AttemptsAreSequential == [](C23_OneInFlight) /\ [][C23_Step]_vars

\* the third attempt is in flight, started no earlier than two time units
\* after the second one rejected
C23_Witness ==
    /\ tasks[1].mode = "retry" /\ tasks[1].pc = "inflight"
    /\ tasks[1].attempt = 3 /\ tasks[1].invoked = 3
    /\ tasks[1].retryCtx[1].attempt = 2 /\ tasks[1].retryCtx[1].delayMs = 2
    /\ now = tasks[1].wakeAt


(***************************************************************************)
(* C24: under any sequence of call outcomes, forceOpen, forceClose, reset, *)
(* resetAll and clearAll: successCount is above zero only in a half-open   *)
(* record; a closed record has no open timestamp; an open or half-open     *)
(* record has its open timestamp set.                                      *)
(***************************************************************************)
C24_RecordIsWellFormed ==
    \A n \in Names :
        registry[n] # Undef =>
        LET rec == registry[n][1]
        IN  /\ rec.successCount > 0 => rec.state = "half-open"
            /\ rec.state = "closed" => rec.openedAt = Undef
            /\ rec.state \in {"open", "half-open"} => rec.openedAt # Undef

\* a record that was opened by a failure and closed again by the second
\* success of two probes
C24_Witness ==
    \E n \in Names, t \in Tasks :
        /\ ThePolicy.successThreshold = 2
        /\ registry[n] # Undef
        /\ registry[n][1].state = "closed"
        /\ registry[n][1].lastFailureTime # Undef
        /\ tasks[t].pc = "done" /\ tasks[t].h.name = n
        /\ tasks[t].out # Undef /\ tasks[t].out[1].ok
        /\ tasks[t].obs = <<[state |-> "half-open", successCount |-> 1]>>


(***************************************************************************)
(* Two concurrent callers of one name: each is a single resilientFetch     *)
(* through the breaker, without retry; their transports overlap in time.   *)
(***************************************************************************)
RacePolicies ==
    [failureThreshold : 1..MaxThreshold,
     resetTimeoutMs : {ResetTimeoutMs},
     successThreshold : 1..MaxThreshold,
     ignoredStatusCodes : {Some({404})}]

InitRace ==
    /\ now = 1
    /\ registry = [n \in Names |-> Undef]
    /\ handles = {}
    /\ \E c \in RacePolicies : pool = {c}
    /\ tasks = [t \in Tasks |-> IdleTask]
    /\ consecFail = [n \in Names |-> 0]

NextRace ==
    \/ \E t \in Tasks, n \in Names, c \in pool : StartFetch(t, n, Some(c), Undef)
    \/ \E t \in Tasks : Respond(t)
    \/ \E t \in Tasks : Abort(t)
    \/ \E t \in Tasks : Return(t)
    \/ \E h \in handles : ForceOpen(h)
    \/ \E h \in handles : ForceClose(h)
    \/ Tick(MaxTime)

SpecRace == InitRace /\ [][NextRace]_vars


(***************************************************************************)
(* C25: outcome accounting is atomic, no update is lost: under every       *)
(* interleaving of concurrent calls on a name, while its record stays      *)
(* closed the failureCount equals the number of non-ignored failures that  *)
(* completed since the most recent completed success, reset or close.      *)
(***************************************************************************)
C25_CountMatchesHistory ==
    \A n \in Names :
        RecordIn(registry, n).state = "closed" =>
            RecordIn(registry, n).failureCount = consecFail[n]

\* each completion updates the count the record holds at that moment,
\* whatever else is in flight
C25_Step ==
    \A t \in Tasks :
        (/\ Completes(t) /\ tasks[t].useCB
         /\ RecordIn(registry, tasks[t].h.name).state = "closed"
         /\ RecordIn(registry', tasks[t].h.name).state = "closed") =>
        LET o == tasks'[t].out[1]
            before == RecordIn(registry, tasks[t].h.name).failureCount
            after == RecordIn(registry', tasks[t].h.name).failureCount
        IN  after = IF o.ok THEN 0
                    ELSE IF CarriesIgnoredStatus(o.error, tasks[t].h.config) THEN before
                    ELSE before + 1

C25_NoLostUpdate == [](C25_CountMatchesHistory) /\ [][C25_Step]_vars

\* task 1 started, failed and was counted while task 2, started earlier,
\* is still in flight
C25_Witness ==
    /\ tasks[2].pc = "inflight" /\ tasks[2].startedAt < now
    /\ tasks[1].pc = "done" /\ tasks[1].startedAt = now
    /\ tasks[1].h.name = tasks[2].h.name
    /\ tasks[1].obs # Undef /\ tasks[1].obs[1].state = "closed"
    /\ tasks[1].resp = <<503>>
    /\ RecordIn(registry, tasks[1].h.name).state = "closed"
    /\ RecordIn(registry, tasks[1].h.name).failureCount = 1
    /\ RecordIn(registry, tasks[1].h.name).lastFailureTime = <<now>>

(***************************************************************************)
(* C26: a late completion cannot disturb an open record: an operation      *)
(* admitted while closed or half-open that completes after the record has  *)
(* become open changes neither state, failureCount, successCount nor the   *)
(* open timestamp; a late failure only overwrites lastError and            *)
(* lastFailureTime.                                                        *)
(***************************************************************************)
C26_Step ==
    \A t \in Tasks :
        (/\ Completes(t) /\ tasks[t].useCB
         /\ tasks[t].adm \in {<<"closed">>, <<"half-open">>}
         /\ RecordIn(registry, tasks[t].h.name).state = "open") =>
        LET o == tasks'[t].out[1]
            before == RecordIn(registry, tasks[t].h.name)
            after == RecordIn(registry', tasks[t].h.name)
        IN  IF o.ok \/ CarriesIgnoredStatus(o.error, tasks[t].h.config)
            THEN registry' = registry
            ELSE after = [before EXCEPT
                             !.lastFailureTime = Some(now),
                             !.lastError = Some(Substring0(o.error.message, MaxErrorLen))]

C26_LateCompletionLeavesOpen == [][C26_Step]_vars

\* a failure that completed on the open record after it was opened: it is
\* the last failure recorded, the open timestamp is the older one
C26_Witness ==
    \E t \in Tasks :
        /\ tasks[t].pc = "done" /\ tasks[t].useCB
        /\ tasks[t].obs # Undef /\ tasks[t].obs[1].state = "open"
        /\ ~tasks[t].out[1].ok
        /\ RecordIn(registry, tasks[t].h.name).state = "open"
        /\ RecordIn(registry, tasks[t].h.name).lastFailureTime = <<now>>
        /\ RecordIn(registry, tasks[t].h.name).openedAt # Undef
        /\ RecordIn(registry, tasks[t].h.name).openedAt[1] < now

(***************************************************************************)
(* C27: accounting is by the state of the record at completion, not at     *)
(* admission: an operation admitted while closed that completes while the  *)
(* record is half-open is treated as a probe: its success increments       *)
(* successCount and can close the record, its non-ignored failure reopens  *)
(* it.                                                                     *)
(***************************************************************************)
C27_Step ==
    \A t \in Tasks :
        (/\ Completes(t) /\ tasks[t].useCB
         /\ tasks[t].adm = <<"closed">>
         /\ RecordIn(registry, tasks[t].h.name).state = "half-open") =>
        LET o == tasks'[t].out[1]
            c == tasks[t].h.config
            before == RecordIn(registry, tasks[t].h.name)
            after == RecordIn(registry', tasks[t].h.name)
        IN  /\ o.ok =>
                 IF before.successCount + 1 >= c.successThreshold
                 THEN after.state = "closed" /\ after.failureCount = 0
                      /\ after.successCount = 0
                 ELSE after.state = "half-open"
                      /\ after.successCount = before.successCount + 1
            /\ (~o.ok /\ ~CarriesIgnoredStatus(o.error, c)) =>
                 after.state = "open" /\ after.openedAt = <<now>>
            /\ (~o.ok /\ CarriesIgnoredStatus(o.error, c)) => registry' = registry

C27_AccountedByCompletionState == [][C27_Step]_vars

\* started before any cooldown could have ended, hence admitted while
\* closed; it failed on the half-open record and reopened it
C27_Witness ==
    \E t \in Tasks :
        /\ tasks[t].pc = "done" /\ tasks[t].useCB
        /\ tasks[t].startedAt < 1 + ResetTimeoutMs
        /\ tasks[t].obs # Undef /\ tasks[t].obs[1].state = "half-open"
        /\ ~tasks[t].out[1].ok
        /\ RecordIn(registry, tasks[t].h.name).state = "open"
        /\ RecordIn(registry, tasks[t].h.name).openedAt = <<now>>
        /\ RecordIn(registry, tasks[t].h.name).lastFailureTime = <<now>>


(***************************************************************************)
(* C28: with retry enabled every failure of resilientFetch reaches the     *)
(* caller as a RetryError: a CircuitBreakerOpenError, a TimeoutError, a    *)
(* promoted 5xx error or a transport error appears only as its lastError.  *)
(* This holds also when maxAttempts = 1, and when the very first attempt   *)
(* is rejected by an open breaker: the transport is then invoked zero      *)
(* times and no delay is slept.                                            *)
(***************************************************************************)
C28_FailureIsRetryError ==
    \A t \in Tasks :
        (/\ tasks[t].mode = "fetch" /\ tasks[t].useRetry
         /\ tasks[t].pc = "done" /\ ~tasks[t].result[1].ok) =>
        /\ tasks[t].result[1].error.name = "RetryError"
        /\ tasks[t].result[1].error.extra.lastError.name
              \in {"CircuitBreakerOpenError", "TimeoutError", "Error", "TypeError"}

C28_Step ==
    \A t \in Tasks :
        (Begins(t) /\ RejectedByBreaker(t)) =>
        /\ tasks'[t].pc = "done"
        /\ tasks'[t].invoked = 0
        /\ tasks'[t].sleeps = 0
        /\ tasks'[t].result[1].error.name = "RetryError"
        /\ tasks'[t].result[1].error.extra.lastError.name = "CircuitBreakerOpenError"

C28_EveryFailureIsWrapped == [](C28_FailureIsRetryError) /\ [][C28_Step]_vars


(***************************************************************************)
(* resilientFetch against a transport that answers with client errors:     *)
(* breaker enabled; task 1 with retry disabled or enabled, the retry       *)
(* configuration naming client statuses as retryable or not; task 2 is     *)
(* concurrent traffic on the same name.                                    *)
(***************************************************************************)
ClientStatuses == {200, 400, 429, 503}

ClientPolicies ==
    [failureThreshold : 1..MaxThreshold,
     resetTimeoutMs : {ResetTimeoutMs},
     successThreshold : 1..MaxThreshold,
     ignoredStatusCodes : {Undef, Some({404})}]

ClientRetryConfigs ==
    [maxAttempts : 1..MaxAttempts,
     baseDelayMs : {1},
     maxDelayMs : {1},
     backoffMultiplier : {Undef},
     jitter : {Undef},
     retryableStatusCodes : {Undef, Some({400, 429})},
     retryableErrorCodes : {Undef}]

\* fetchWithTimeout settles with a response of one of ClientStatuses
RespondClient(t) ==
    /\ tasks[t].pc = "inflight"
    /\ tasks[t].mode = "fetch"
    /\ now - tasks[t].startedAt <= tasks[t].timeoutMs
    /\ \E status \in ClientStatuses :
          LET o == Promote(status)
          IN  /\ \E r \in Finish([tasks[t] EXCEPT !.resp = Some(status),
                                                  !.out = Some(o),
                                                  !.obs = Observed(tasks[t], registry)],
                                 registry, o, now) :
                    /\ tasks' = [tasks EXCEPT ![t] = r.tk]
                    /\ registry' = r.reg
              /\ consecFail' = Counted(consecFail, tasks[t], o)
    /\ UNCHANGED <<now, handles, pool>>

InitClient ==
    /\ now = 1
    /\ registry = [n \in Names |-> Undef]
    /\ handles = {}
    /\ \E c \in ClientPolicies : pool = {c}
    /\ tasks = [t \in Tasks |-> IdleTask]
    /\ consecFail = [n \in Names |-> 0]

NextClient ==
    \/ \E n \in Names, c \in pool,
          rt \in {Undef} \cup {Some(rc) : rc \in ClientRetryConfigs} :
             StartFetch(1, n, Some(c), rt)
    \/ \E n \in Names, c \in pool : StartFetch(2, n, Some(c), Undef)
    \/ \E t \in Tasks : RespondClient(t)
    \/ \E t \in Tasks : Abort(t)
    \/ Wake(1)
    \/ \E t \in Tasks : Return(t)
    \/ Tick(MaxTime)

SpecClient == InitClient /\ [][NextClient]_vars

(***************************************************************************)
(* C29: in resilientFetch every response with status below 500 is a        *)
(* success for both layers, whatever the policies: it is returned after a  *)
(* single transport invocation, without retry, also for 429 or a status    *)
(* listed in retryableStatusCodes; an enabled breaker records it as a      *)
(* success, also for a 4xx that is not in ignoredStatusCodes: failureCount *)
(* is reset to 0 while closed, and it counts toward successThreshold while *)
(* half-open.                                                              *)
(***************************************************************************)
C29_Step ==
    \A t \in Tasks, s \in ClientStatuses :
        (Answers(t, s) /\ s < 500) =>
        LET c == tasks[t].h.config
            before == RecordIn(registry, tasks[t].h.name)
            after == RecordIn(registry', tasks[t].h.name)
        IN  /\ tasks'[t].pc = "done"
            /\ tasks'[t].result = Some(Ok(s))
            /\ tasks'[t].invoked = tasks[t].invoked
            /\ tasks'[t].sleeps = tasks[t].sleeps
            /\ tasks[t].attempt = 1 => tasks'[t].invoked = 1
            /\ before.state = "closed" =>
                  after.state = "closed" /\ after.failureCount = 0
            /\ before.state = "half-open" =>
                  IF before.successCount + 1 >= c.successThreshold
                  THEN after.state = "closed" /\ after.successCount = 0
                  ELSE after.state = "half-open"
                       /\ after.successCount = before.successCount + 1

C29_ClientErrorIsSuccess == [][C29_Step]_vars

\* a 429, listed as retryable, came back on the first attempt of three while
\* the record was half-open: returned at once, one probe success counted
C29_Witness ==
    /\ tasks[1].pc = "done" /\ tasks[1].useCB /\ tasks[1].useRetry
    /\ tasks[1].rcfg.maxAttempts = 3
    /\ tasks[1].rcfg.retryableStatusCodes = <<{400, 429}>>
    /\ tasks[1].h.config.ignoredStatusCodes = Undef
    /\ tasks[1].h.config.successThreshold = 2
    /\ tasks[1].resp = <<429>> /\ tasks[1].result = Some(Ok(429))
    /\ tasks[1].invoked = 1 /\ tasks[1].sleeps = 0
    /\ tasks[1].obs = <<[state |-> "half-open", successCount |-> 0]>>
    /\ RecordIn(registry, tasks[1].h.name).state = "half-open"
    /\ RecordIn(registry, tasks[1].h.name).successCount = 1


(***************************************************************************)
(* Recovery: callers keep calling through the breaker of a name.  An       *)
(* operation may fail up to the instant FaultsEnd; every operation that    *)
(* completes later succeeds.  FaultsEnd leaves room for one full cooldown  *)
(* within the modelled time.  Fairness: the clock advances, an idle caller *)
(* calls again, an operation in flight settles, a settled call is taken.   *)
(***************************************************************************)
FaultsEnd == MaxTime - ResetTimeoutMs

\* the operation of a call resolves
Succeeds(t) ==
    /\ tasks[t].pc = "inflight"
    /\ tasks[t].mode = "call"
    /\ LET o == Ok(tasks[t].invoked)
       IN  /\ \E r \in Finish([tasks[t] EXCEPT !.out = Some(o),
                                               !.obs = Observed(tasks[t], registry)],
                              registry, o, now) :
                 /\ tasks' = [tasks EXCEPT ![t] = r.tk]
                 /\ registry' = r.reg
           /\ consecFail' = Counted(consecFail, tasks[t], o)
    /\ UNCHANGED <<now, handles, pool>>

\* the operation of a call rejects, while the service is still faulty
FailsUntil(t, limit) ==
    /\ tasks[t].pc = "inflight"
    /\ tasks[t].mode = "call"
    /\ now <= limit
    /\ \E e \in RawErrors("call") :
          LET o == Fail(e)
          IN  /\ \E r \in Finish([tasks[t] EXCEPT !.out = Some(o),
                                                  !.obs = Observed(tasks[t], registry)],
                                 registry, o, now) :
                    /\ tasks' = [tasks EXCEPT ![t] = r.tk]
                    /\ registry' = r.reg
              /\ consecFail' = Counted(consecFail, tasks[t], o)
    /\ UNCHANGED <<now, handles, pool>>

CallsAgain(t) == \E h \in handles : Call(t, h)

Registers == \E n \in Names, c \in pool : GetOrCreate(n, c)

NextRecovery ==
    \/ Registers
    \/ \E t \in Tasks : CallsAgain(t)
    \/ \E t \in Tasks : Succeeds(t)
    \/ \E t \in Tasks : FailsUntil(t, FaultsEnd)
    \/ \E t \in Tasks : Return(t)
    \/ Tick(MaxTime)

SpecRecovery ==
    /\ Init /\ [][NextRecovery]_vars
    /\ WF_vars(Tick(MaxTime))
    /\ WF_vars(Registers)
    /\ \A t \in Tasks :
          /\ WF_vars(CallsAgain(t))
          /\ WF_vars(Succeeds(t))
          /\ WF_vars(Return(t))

(***************************************************************************)
(* C30: recovery.  With one policy (finite resetTimeoutMs, successThreshold *)
(* at least 1): if from some point on every invoked operation succeeds,    *)
(* calls keep being made and time keeps advancing, then the record         *)
(* eventually becomes closed and stays closed.                             *)
(***************************************************************************)
C30_EventuallyClosedForGood ==
    <>[](\A n \in Names : RecordIn(registry, n).state = "closed")

\* the record was opened by a failure and has been closed again by the
\* second of two probe successes after the cooldown
C30_Witness ==
    \E n \in Names, t \in Tasks :
        /\ ThePolicy.successThreshold = 2
        /\ now >= 1 + ThePolicy.resetTimeoutMs
        /\ IsDef(registry[n]) /\ registry[n][1].state = "closed"
        /\ registry[n][1].lastFailureTime # Undef
        /\ registry[n][1].lastFailureTime[1] <= FaultsEnd
        /\ tasks[t].pc = "done" /\ tasks[t].h.name = n
        /\ tasks[t].out # Undef /\ tasks[t].out[1].ok
        /\ tasks[t].obs = <<[state |-> "half-open", successCount |-> 1]>>

=============================================================================
